---- MODULE Spec2Model ----
(***************************************************************************)
(* Memory-management core of ZONE-OS: the bitmap physical memory manager   *)
(* (kernel/mm/pmm.c) on top of the Limine memory map reported by the       *)
(* x86_64 memory HAL (kernel/arch/x86_64/memory_arch.c).                   *)
(*                                                                         *)
(* Addresses are byte addresses, page indices are addr / PAGE_SIZE, as in  *)
(* the source.  NULL is address 0.                                         *)
(***************************************************************************)
EXTENDS Integers, Sequences, FiniteSets, TLC

(***************************************************************************)
(* Bounds of the model                                                     *)
(***************************************************************************)
\* memory maps of the boot-time specification reach up to this many half pages
MaxMapHalf == 6
\* largest page count passed to an allocation or a free
MaxCount == 2
\* alloc_count and free_count are u64 counters: no further allocation call once
\* alloc_count is MaxAllocs, no further free call once free_count is MaxFrees
MaxAllocs == 3
MaxFrees == 2
\* pmm_stats.reserved_pages grows on every pmm_init; no further pmm_init once it is here
MaxReserved == 2
\* pages described by the memory maps of the run-time specifications
SeqPages == 5
\* kmalloc calls that reach the slab or the buddy allocator in the heap specification
MaxHeapAllocs == 3
\* pages of low usable memory in the heap specification's memory map
HeapLowPages == 16

(***************************************************************************)
(* Paging macros, arch/x86_64/memory/paging_defs.h                         *)
(***************************************************************************)
PAGE_SIZE == 4096
HALF_PAGE == PAGE_SIZE \div 2
NULL == 0

ADDR_TO_PAGE(addr) == addr \div PAGE_SIZE
PAGE_TO_ADDR(page) == page * PAGE_SIZE
PAGE_ALIGN_DOWN(addr) == (addr \div PAGE_SIZE) * PAGE_SIZE
PAGE_ALIGN_UP(addr) == ((addr + PAGE_SIZE - 1) \div PAGE_SIZE) * PAGE_SIZE

Min(a, b) == IF a < b THEN a ELSE b
SetMax(S) == CHOOSE x \in S : \A y \in S : y <= x

(***************************************************************************)
(* Memory HAL: memory_region_t, validate_memory_region,                    *)
(* arch_memory_detect_regions                                              *)
(***************************************************************************)
MemoryTypes == {"USABLE", "RESERVED", "ACPI_RECLAIMABLE", "ACPI_NVS", "BAD",
                "BOOTLOADER_RECLAIMABLE", "EXECUTABLE_AND_MODULES", "FRAMEBUFFER"}

Region(b, l, t) == [base |-> b, length |-> l, type |-> t]

\* mmio_ranges[] and acpi_reserved_ranges[] of the HAL, inclusive [base, end].
\* The IOAPIC/HPET and firmware ranges (0xFEC00000.., 0xFE000000..) lie above
\* every address of the model and can overlap none of its regions.
mmio_ranges == { <<655360, 1048575>> }
acpi_reserved_ranges == { <<917504, 1048575>> }

ranges_overlap(a_start, a_end, b_start, b_end) == ~(a_end < b_start \/ b_end < a_start)

\* base + length cannot wrap and cannot pass 2^52 for the addresses of the model;
\* a region [0, 0) has end_addr = 0 - 1 = 2^64 - 1 and is rejected by the limit check
validate_memory_region(r) ==
  LET end_addr == r.base + r.length - 1 IN
  /\ ~(r.base = 0 /\ r.length = 0)
  /\ \A m \in mmio_ranges : ~ranges_overlap(r.base, end_addr, m[1], m[2])
  /\ \A m \in acpi_reserved_ranges : ~ranges_overlap(r.base, end_addr, m[1], m[2])

arch_memory_detect_regions(mm) == SelectSeq(mm, validate_memory_region)

(***************************************************************************)
(* Bitmap primitives of the PMM.  bm is the bitmap content as a function   *)
(* page index -> 0/1 over [0, tp); bit 1 = used.                           *)
(***************************************************************************)
pmm_mark_page_used(bm, tp, page_index) ==
  IF page_index < tp THEN [bm EXCEPT ![page_index] = 1] ELSE bm

pmm_mark_page_free(bm, tp, page_index) ==
  IF page_index < tp THEN [bm EXCEPT ![page_index] = 0] ELSE bm

pmm_is_page_used_internal(bm, tp, page_index) ==
  IF page_index >= tp THEN TRUE ELSE bm[page_index] # 0

\* for (page = first; page <= last; page++) pmm_mark_page_used(page): every
\* index of [page, last_page] below tp is set, the others keep their bit
MarkUsedLoop(bm, tp, page, last_page) ==
  [i \in DOMAIN bm |->
     IF page <= i /\ i <= last_page THEN pmm_mark_page_used(bm, tp, i)[i] ELSE bm[i]]

\* for (page = first; page <= last; page++) pmm_mark_page_free(page)
MarkFreeLoop(bm, tp, page, last_page) ==
  [i \in DOMAIN bm |->
     IF page <= i /\ i <= last_page THEN pmm_mark_page_free(bm, tp, i)[i] ELSE bm[i]]

\* the two counting loops of pmm_update_stats / pmm_check_integrity
CountUsed(bm, tp) == Cardinality({i \in 0..(tp - 1) : pmm_is_page_used_internal(bm, tp, i)})
CountFree(bm, tp) == Cardinality({i \in 0..(tp - 1) : ~pmm_is_page_used_internal(bm, tp, i)})

pmm_update_hint_locked(tp, new_hint) == IF new_hint < tp THEN new_hint ELSE 0

(***************************************************************************)
(* Search loops                                                            *)
(***************************************************************************)
RECURSIVE ScanFree(_, _, _, _)
\* first free page in [i, limit), or -1
ScanFree(bm, tp, i, limit) ==
  IF i >= limit THEN -1
  ELSE IF ~pmm_is_page_used_internal(bm, tp, i) THEN i
  ELSE ScanFree(bm, tp, i + 1, limit)

pmm_find_free_page_from(bm, tp, start_hint) ==
  LET p1 == ScanFree(bm, tp, start_hint, tp) IN
  IF p1 # -1 THEN p1
  ELSE LET p2 == ScanFree(bm, tp, 0, start_hint) IN
       IF p2 # -1 THEN p2 ELSE tp

\* defect: only the first page of the window is tested
FirstUsedOffset_FirstPageOnly(bm, tp, start, count, i) ==
  IF pmm_is_page_used_internal(bm, tp, start) THEN 0 ELSE count

RECURSIVE FirstUsedOffset(_, _, _, _, _)
\* inner loop of the window check: the first i < count with page start + i used, or count
FirstUsedOffset(bm, tp, start, count, i) ==
  IF i >= count THEN count
  ELSE IF pmm_is_page_used_internal(bm, tp, start + i) THEN i
  ELSE FirstUsedOffset(bm, tp, start, count, i + 1)

RECURSIVE WindowScan(_, _, _, _, _, _, _)
\* for (start = s; start < stop && start + count <= limit; start++) with the
\* sliding-window skip start += i; a start must also satisfy addr % alignment == 0.
\* Returns the start found, or -1.
WindowScan(bm, tp, start, count, stop, limit, alignment) ==
  IF ~(start < stop /\ start + count <= limit) THEN -1
  ELSE IF PAGE_TO_ADDR(start) % alignment # 0
       THEN WindowScan(bm, tp, start + 1, count, stop, limit, alignment)
  ELSE LET i == FirstUsedOffset(bm, tp, start, count, 0) IN
       IF i = count THEN start
       ELSE WindowScan(bm, tp, start + i + 1, count, stop, limit, alignment)

\* defect: the wrap-around scan only accepts runs that end before the hint
pmm_find_free_pages_from_StopsAtHint(bm, tp, start_hint, count) ==
  LET p1 == WindowScan(bm, tp, start_hint, count, tp + 1, tp, PAGE_SIZE) IN
  IF p1 # -1 THEN p1
  ELSE LET p2 == WindowScan(bm, tp, 0, count, start_hint, start_hint, PAGE_SIZE) IN
       IF p2 # -1 THEN p2 ELSE tp

pmm_find_free_pages_from(bm, tp, start_hint, count) ==
  LET p1 == WindowScan(bm, tp, start_hint, count, tp + 1, tp, PAGE_SIZE) IN
  IF p1 # -1 THEN p1
  ELSE LET p2 == WindowScan(bm, tp, 0, count, start_hint, tp, PAGE_SIZE) IN
       IF p2 # -1 THEN p2 ELSE tp

(***************************************************************************)
(* pmm_init, step by step                                                  *)
(***************************************************************************)
IsReclaimable(t) == t \in {"USABLE", "BOOTLOADER_RECLAIMABLE", "ACPI_RECLAIMABLE"}

\* STEP 3: highest region end, total and usable byte counts
HighestAddr(regions) ==
  SetMax({0} \cup {regions[i].base + regions[i].length : i \in 1..Len(regions)})

RECURSIVE TotalMemory(_, _)
TotalMemory(regions, i) ==
  IF i > Len(regions) THEN 0 ELSE regions[i].length + TotalMemory(regions, i + 1)

RECURSIVE UsableMemory(_, _)
UsableMemory(regions, i) ==
  IF i > Len(regions) THEN 0
  ELSE (IF IsReclaimable(regions[i].type) THEN regions[i].length ELSE 0)
       + UsableMemory(regions, i + 1)

\* STEP 4: a USABLE region long enough for the bitmap.  available is a u64
\* difference: when the region ends below its aligned base it wraps to a
\* huge value and the comparison succeeds.
BitmapFits(r, bitmap_size) ==
  /\ r.type = "USABLE"
  /\ r.length >= bitmap_size
  /\ LET aligned_base == PAGE_ALIGN_UP(r.base)
         available == r.base + r.length - aligned_base
     IN available < 0 \/ available >= bitmap_size

\* index of the first candidate region, 0 when bitmap_found stays false
FindBitmapRegion(regions, bitmap_size) ==
  LET C == {i \in 1..Len(regions) : BitmapFits(regions[i], bitmap_size)} IN
  IF C = {} THEN 0 ELSE CHOOSE i \in C : \A j \in C : i <= j

\* STEP 6: free the whole pages of every reclaimable region, in map order
RECURSIVE MarkRegions(_, _, _, _)
MarkRegions(bm, tp, regions, i) ==
  IF i > Len(regions) THEN bm
  ELSE LET r == regions[i]
           aligned_start == PAGE_ALIGN_UP(r.base)
           aligned_end == PAGE_ALIGN_DOWN(r.base + r.length)
       IN IF aligned_end <= aligned_start THEN MarkRegions(bm, tp, regions, i + 1)
          ELSE IF IsReclaimable(r.type)
               THEN MarkRegions(MarkFreeLoop(bm, tp, ADDR_TO_PAGE(aligned_start),
                                             ADDR_TO_PAGE(aligned_end) - 1),
                                tp, regions, i + 1)
          ELSE MarkRegions(bm, tp, regions, i + 1)

\* STEP 6, default branch: pages added to pmm_stats.reserved_pages
RECURSIVE ReservedPages(_, _)
ReservedPages(regions, i) ==
  IF i > Len(regions) THEN 0
  ELSE LET r == regions[i]
           aligned_start == PAGE_ALIGN_UP(r.base)
           aligned_end == PAGE_ALIGN_DOWN(r.base + r.length)
       IN (IF aligned_end > aligned_start /\ ~IsReclaimable(r.type)
           THEN ADDR_TO_PAGE(aligned_end) - ADDR_TO_PAGE(aligned_start) ELSE 0)
          + ReservedPages(regions, i + 1)

\* STEPS 5-8: memset 0xFF, region marking, bitmap protection, page 0.
\* With bitmap_size = 0 the last bitmap page wraps to 2^52 - 1; every index
\* >= total_pages is ignored by pmm_mark_page_used, so the loop stops at tp.
InitialBitmap(regions, tp, bitmap_addr, bitmap_size) ==
  LET all_used == [i \in 0..(tp - 1) |-> 1]
      marked == MarkRegions(all_used, tp, regions, 1)
      bitmap_start_page == ADDR_TO_PAGE(bitmap_addr)
      bitmap_end_page == IF bitmap_addr + bitmap_size - 1 < 0 THEN tp
                         ELSE ADDR_TO_PAGE(bitmap_addr + bitmap_size - 1)
      protected == MarkUsedLoop(marked, tp, bitmap_start_page, bitmap_end_page)
  IN pmm_mark_page_used(protected, tp, 0)

(***************************************************************************)
(* State                                                                   *)
(***************************************************************************)
VARIABLES
  memmap,     \* the Limine memory map response, fixed after boot
  pmm_state,  \* static pmm_state_t pmm_state
  bitmap,     \* content of the bitmap pmm_state.bitmap points to
  pmm_stats,  \* static pmm_stats_t pmm_stats
  pmm_lock,   \* static spinlock_t pmm_lock
  last,       \* the most recent call: operation, arguments, return value
  c6,         \* observer of alloc_pages(n) ; free_pages(q, n) ; alloc_pages(n)
  c7,         \* observer of the calls made right after pmm_init
  c18,        \* observer of buddy_init ; buddy_alloc ... ; buddy_free ...
  pc,         \* per CPU: where it stands inside a PMM call
  loc,        \* per CPU: the locals of the call in progress
  lock_holder,\* the CPU whose spinlock_lock(&pmm_lock) returned last and has not unlocked
  live,       \* allocations returned and not yet freed: [cpu, first, n]
  access,     \* the latest read or write of bitmap / hint / counters: [fn, held]
  heap_initialized, \* static bool heap_initialized of heap.c
  buddy,      \* static buddy_allocator_t buddy, with the block headers it wrote
  g_caches,   \* g_caches[0 .. g_cache_count), each slab_cache_t by value
  slabs,      \* the slab_t at the base of every slab page, by physical page address
  g_stats,    \* static slab_stats_t g_stats
  heap_live,  \* pointers kmalloc returned that were not passed to kfree yet
  heap_last,  \* the most recent heap call: operation, argument, returned pointer
  pt_mem,     \* physical memory read as page tables: frame -> index -> entry
  cr3,        \* the CR3 register: physical address of the active PML4
  spaces,     \* the vmm_space objects by address, the static kernel space included
  vmm_state,  \* static vmm_state of mm/vmm.c
  vmm_arch,   \* the static flags and counters of arch/x86_64/memory/vmm_arch.c
  vmm_last,   \* the most recent VMM call: operation, arguments, result
  vpc,        \* per CPU: where it stands inside arch_vmm_map
  vloc        \* per CPU: the arguments and locals of the arch_vmm_map in progress

pmmVars == <<pmm_state, bitmap, pmm_stats, pmm_lock>>
obsVars == <<last, c6, c7, c18>>
cpuVars == <<pc, loc, lock_holder, live, access>>
heapVars == <<heap_initialized, buddy, g_caches, slabs, g_stats, heap_live, heap_last>>
vmmVars == <<pt_mem, cr3, spaces, vmm_state, vmm_arch, vmm_last, vpc, vloc>>
vars == <<memmap, pmm_state, bitmap, pmm_stats, pmm_lock, last, c6, c7, c18,
          pc, loc, lock_holder, live, access,
          heap_initialized, buddy, g_caches, slabs, g_stats, heap_live, heap_last,
          pt_mem, cr3, spaces, vmm_state, vmm_arch, vmm_last, vpc, vloc>>

Cpus == {"cpu0", "cpu1"}
\* held: the allocator locks the CPU has acquired and not released
NoLocals == [op |-> "-", n |-> 0, align |-> 0, start |-> 0, held |-> {}]

\* ptr: pointer result (0 = NULL); res: pmm_result_t, "true"/"false", or "-"
Call(op, a, n, b, ptr, res) ==
  [op |-> op, a |-> a, n |-> n, b |-> b, ptr |-> ptr, res |-> res]

NoCall == Call("-", 0, 0, 0, 0, "-")
C6Idle == [stage |-> 0, q |-> 0, n |-> 0, r |-> 0, res |-> "-",
           bm |-> <<>>, free |-> 0, used |-> 0]
C7Idle == [stage |-> 0, a |-> 0, b |-> 0, c |-> 0]

\* stage 1: alloc_pages(n) returned q, pre-call bitmap and counters recorded;
\* stage 2: the next call was free_pages(q, n); stage 3: then alloc_pages(n) again
C6Step(m, call, bm, st) ==
  IF m.stage = 1 /\ call.op = "pmm_free_pages" /\ call.a = m.q /\ call.n = m.n
  THEN [m EXCEPT !.stage = 2, !.res = call.res]
  ELSE IF m.stage = 2 /\ call.op = "pmm_alloc_pages" /\ call.n = m.n
  THEN [C6Idle EXCEPT !.stage = 3, !.q = m.q, !.n = m.n, !.r = call.ptr]
  ELSE IF call.op = "pmm_alloc_pages" /\ call.ptr # NULL
  THEN [stage |-> 1, q |-> call.ptr, n |-> call.n, r |-> 0, res |-> "-",
        bm |-> bm, free |-> st.free_pages, used |-> st.used_pages]
  ELSE C6Idle

\* stages 1..5: pmm_init ok; a = alloc_page(); b = alloc_page(); free_page(a); c = alloc_page()
C7Step(m, call) ==
  IF call.op = "pmm_init" /\ call.res = "PMM_SUCCESS" THEN [C7Idle EXCEPT !.stage = 1]
  ELSE IF m.stage = 1 /\ call.op = "pmm_alloc_page" /\ call.ptr # NULL
  THEN [m EXCEPT !.stage = 2, !.a = call.ptr]
  ELSE IF m.stage = 2 /\ call.op = "pmm_alloc_page" /\ call.ptr # NULL
  THEN [m EXCEPT !.stage = 3, !.b = call.ptr]
  ELSE IF m.stage = 3 /\ call.op = "pmm_free_page" /\ call.a = m.a /\ call.res = "PMM_SUCCESS"
  THEN [m EXCEPT !.stage = 4]
  ELSE IF m.stage = 4 /\ call.op = "pmm_alloc_page" /\ call.ptr # NULL
  THEN [m EXCEPT !.stage = 5, !.c = call.ptr]
  ELSE C7Idle

\* "allocating": buddy_init succeeded and every call since was a successful
\* buddy_alloc; "freeing": buddy_free calls followed, and nothing else
C18Idle == [stage |-> "idle"]
C18Step(m, call) ==
  IF call.op = "buddy_init" /\ call.res = "true" THEN [stage |-> "allocating"]
  ELSE IF m.stage = "allocating" /\ call.op = "buddy_alloc" /\ call.ptr # NULL THEN m
  ELSE IF m.stage \in {"allocating", "freeing"} /\ call.op = "buddy_free"
  THEN [stage |-> "freeing"]
  ELSE C18Idle

\* every call is observed the same way
Observe(call) ==
  /\ last' = call
  /\ c6' = C6Step(c6, call, bitmap, pmm_stats)
  /\ c7' = C7Step(c7, call)
  /\ c18' = C18Step(c18, call)
  /\ UNCHANGED <<cpuVars, vmmVars>>

(***************************************************************************)
(* Kernel heap data: buddy allocator (mm/heap/buddy.c), slab allocator     *)
(* (mm/heap/slab.c), facade (mm/heap/heap.c)                               *)
(***************************************************************************)
BUDDY_MIN_ORDER == 12
BUDDY_MAX_ORDER == 20
BUDDY_MIN_BLOCK_SIZE == 2^BUDDY_MIN_ORDER
Orders == BUDDY_MIN_ORDER..BUDDY_MAX_ORDER
\* static u64 buddy_bitmap[(1 << 18) / 64]: the bits handed to buddy_init
BuddyBitmapBits == 2^18
\* sizeof(buddy_block_header_t).  The header type is defined in none of the
\* sources; it holds an order and a magic word, so heap_init starts the model
\* with either size.
BuddyHeaderSizes == {8, 16}
\* buddy_alloc calls one caller makes on one allocator
MaxBuddyAllocs == 3
\* 4 KiB units of the region whose header positions a misusing caller frees
MisuseUnits == 2
\* pages of usable memory and allocation calls of the slab specification
SlabPages == 13
MaxSlabAllocs == 4
\* nodes followed along a free list that a second free closed on itself
MaxFreeWalk == 8
\* pages of usable memory of the slab fill specification, and the allocations
\* a cache serves in it
FillPages == 12
MaxFill == 64
\* allocation calls of the two CPUs of the lock specification
MaxLockAllocs == 2
\* address spaces alive next to the kernel's
MaxSpaces == 2
\* usable pages of the memory map of the VMM specifications
VmmPages == 24
\* page allocations after which the one-page back end is no longer called
MaxArchAllocs == 11
\* the same for the range back end, whose boot takes four
MaxRangeAllocs == 10
\* usable pages of the memory map of SpecVmmArch
RangePages == 8
\* pages mapped through mm/vmm.c; pages unmapped, by vmm_unmap or by the
\* rollback of a failed vmm_map
MaxMappings == 3
MaxUnmappings == 2

HEAP_SLAB_MAX_SIZE == 2048
SLAB_MAX_SIZE == 2048
SLAB_MAX_CACHES == 32
SLAB_PAGE_SIZE == 4096
default_sizes == <<16, 32, 64, 128, 256, 512, 1024, 2048>>
\* sizeof(slab_t): list node 16, page_addr 8, free_list 8, three u16 padded to 8,
\* magic padded to 8
SizeofSlab == 48
\* sizeof(slab_object_t): one pointer
SizeofSlabObject == 8
SLAB_OBJECTS_PER_PAGE(obj_size) == (SLAB_PAGE_SIZE - SizeofSlab) \div obj_size

(* A 64-bit virtual address is the pair of its upper 32 bits, read as a     *)
(* signed number, and its lower 32 bits.  Physical addresses of the model    *)
(* stay below 2^32, so adding one to a window base never carries.           *)
Ptr(hi, lo) == [hi |-> hi, lo |-> lo]
NullPtr == Ptr(0, 0)
\* KERNEL_BASE 0xFFFF800000000000 and VMM_X86_64_DIRECT_MAP 0xFFFF888000000000
KERNEL_BASE_HI == -(2^15)
DIRECT_MAP_HI == KERNEL_BASE_HI + 2176
vmm_phys_to_virt(phys_addr) == Ptr(KERNEL_BASE_HI, phys_addr)
vmm_virt_to_phys(virt_addr) == Ptr(virt_addr.hi - KERNEL_BASE_HI, virt_addr.lo)
VMM_X86_64_PHYS_TO_VIRT(addr) == Ptr(DIRECT_MAP_HI, addr)
VMM_X86_64_VIRT_TO_PHYS(addr) == Ptr(addr.hi - DIRECT_MAP_HI, addr.lo)
\* ptr != NULL && (ptr & 0x3) == 0
SLAB_PTR_VALID(ptr) == ptr # NullPtr /\ ptr.lo % 4 = 0

NoMemory == [a \in {} |-> 0]
\* memory content written at an address: Store keeps what lies elsewhere
Store(mem, addr, v) == [a \in DOMAIN mem \cup {addr} |-> IF a = addr THEN v ELSE mem[a]]

\* list_insert_after(head, node) and list_remove(node) on a list kept head first
list_insert_after(list, node) == <<node>> \o list
list_remove(list, node) == SelectSeq(list, LAMBDA x : x # node)
list_is_empty(list) == list = << >>

BuddyStatic ==
  [base_addr |-> 0, total_size |-> 0, free_lists |-> [o \in Orders |-> << >>],
   allocation_map |-> {}, headers |-> NoMemory, header_size |-> 0,
   total_allocs |-> 0, total_frees |-> 0, failed_allocs |-> 0,
   lock |-> [locked |-> 0]]

\* a NULL slab_ctor_t / slab_dtor_t; any other value names a function
NoCallback == "NULL"

SlabStatsZero ==
  [total_caches |-> 0, total_slabs |-> 0, total_memory |-> 0, allocated_memory |-> 0,
   overhead_memory |-> 0, total_allocs |-> 0, total_frees |-> 0, failed_allocs |-> 0]

(***************************************************************************)
(* Virtual memory data: page-table entries and the walk indices of a       *)
(* virtual address, the tables the boot loader leaves active, the statics  *)
(* of mm/vmm.c and of the x86_64 back ends                                 *)
(***************************************************************************)
VMM_X86_64_ENTRIES_PER_TABLE == 512

\* a 64-bit entry: its bits 12..51 read as an address, and the flag bits set
Pte(addr, bits) == [addr |-> addr, bits |-> bits]
ZeroPte == Pte(0, {})
\* x & 0x000FFFFFFFFFF000, x & ADDR_1G_MASK, x & ADDR_2M_MASK, for x below 2^31
PTE_ADDR_MASK(x) == x - (x % PAGE_SIZE)
ADDR_1G_MASK(x) == x - (x % 2^30)
ADDR_2M_MASK(x) == x - (x % 2^21)

\* ((va) >> 39) & 0x1FF and the three indices below it, on the two limbs of va
IDX_PML4(va) == ((va.hi % 2^16) \div 2^7) % 512
IDX_PDPT(va) == ((va.hi % 2^7) * 4 + va.lo \div 2^30) % 512
IDX_PD(va) == (va.lo \div 2^21) % 512
IDX_PT(va) == (va.lo \div 2^12) % 512
\* bits 48..63 repeat bit 47
VMM_X86_64_IS_CANONICAL(va) == -(2^15) <= va.hi /\ va.hi < 2^15
\* virt + i * PAGE_SIZE, inside the lower limb
PtrAdd(va, n) == Ptr(va.hi, va.lo + n)

\* tbl[idx] read and written by physical address of the table; a row holds the
\* entries that are not zero
ReadPte(mem, table, idx) ==
  IF table \in DOMAIN mem /\ idx \in DOMAIN mem[table] THEN mem[table][idx] ELSE ZeroPte
WritePte(mem, table, idx, e) ==
  LET row == IF table \in DOMAIN mem THEN mem[table] ELSE NoMemory IN
  Store(mem, table, IF e = ZeroPte THEN [i \in DOMAIN row \ {idx} |-> row[i]]
                    ELSE Store(row, idx, e))
\* memset(table, 0, PAGE_SIZE)
ZeroTable(mem, table) == Store(mem, table, NoMemory)

(* The tables Limine leaves in CR3.  They map the higher-half direct map   *)
(* at KERNEL_BASE, here its first two GiB, with 2 MiB pages or with 1 GiB  *)
(* pages.  Their frames lie above every page of the memory maps of the     *)
(* model.  GiantBase is the physical address the second 1 GiB page maps;   *)
(* what that memory holds is not a page table.                             *)
BootPml4 == 4096 * PAGE_SIZE
BootPdpt == BootPml4 + PAGE_SIZE
BootPd0 == BootPml4 + 2 * PAGE_SIZE
BootPd1 == BootPml4 + 3 * PAGE_SIZE
GiantBase == 2^30
LargePage(base) == Pte(base, {"P", "RW", "PS"})
TableAt(phys) == Pte(phys, {"P", "RW"})
HhdmIndex == IDX_PML4(Ptr(KERNEL_BASE_HI, 0))

LimineTables(page_size, foreign) ==
  IF page_size = "1G"
  THEN (BootPml4 :> (HhdmIndex :> TableAt(BootPdpt)))
       @@ (BootPdpt :> (0 :> LargePage(0) @@ 1 :> LargePage(GiantBase)))
       @@ (GiantBase :> foreign)
  ELSE (BootPml4 :> (HhdmIndex :> TableAt(BootPdpt)))
       @@ (BootPdpt :> (0 :> TableAt(BootPd0) @@ 1 :> TableAt(BootPd1)))
       @@ (BootPd0 :> (0 :> LargePage(0) @@ 1 :> LargePage(2^21)))
       @@ (BootPd1 :> (0 :> LargePage(GiantBase) @@ 1 :> LargePage(GiantBase + 2^21)))

\* memory that is no page table, read as one: all zero, or words with bit 7 set
ForeignContents == {NoMemory, (0 :> Pte(GiantBase, {"P", "PS", "NX"}))}
BootTableChoices ==
  {LimineTables("2M", NoMemory)} \cup {LimineTables("1G", g) : g \in ForeignContents}

\* &kernel_space / &g_kernel_space: a static object of the kernel image
KernelSpacePtr == Ptr(-1, 0)
\* static struct vmm_space kernel_space of vmm_arch.c
KernelSpaceStatic ==
  [phys_pml4 |-> 0, is_kernel_space |-> TRUE, mapped_pages |-> 0,
   space_id |-> 0, is_active |-> TRUE]

VmmCall(op, space, virt, phys, count, flags, res, out) ==
  [op |-> op, space |-> space, virt |-> virt, phys |-> phys, count |-> count,
   flags |-> flags, res |-> res, out |-> out]
NoVmmCall == VmmCall("-", NullPtr, NullPtr, 0, 0, {}, "-", 0)
NoVmmLocals == [space |-> NullPtr, virt |-> NullPtr, phys |-> 0, flags |-> {},
                bits |-> {}, need_user |-> FALSE, table |-> 0, level |-> 0,
                e |-> ZeroPte, res |-> "-"]

\* what the boot leaves of the VMM in a kernel that runs only the PMM and the heap
VmmStatic ==
  /\ cr3 = BootPml4
  /\ vmm_state = [initialized |-> FALSE, kernel_space |-> NullPtr,
                  total_spaces_created |-> 0, total_mappings |-> 0, total_unmappings |-> 0]
  /\ vmm_arch = [vmm_x86_64_initialized |-> FALSE, next_space_id |-> 1,
                 active_space |-> KernelSpacePtr, direct_map_ready |-> FALSE,
                 spaces_created |-> 0, spaces_destroyed |-> 0,
                 pages_mapped |-> 0, pages_unmapped |-> 0]
  /\ vmm_last = NoVmmCall
  /\ vpc = [t \in Cpus |-> "idle"]
  /\ vloc = [t \in Cpus |-> NoVmmLocals]

VmmUnused ==
  /\ pt_mem = LimineTables("2M", NoMemory)
  /\ spaces = (KernelSpacePtr :> KernelSpaceStatic)

HeapCall(op, size, ptr) == [op |-> op, size |-> size, ptr |-> ptr]
NoHeapCall == HeapCall("-", 0, NullPtr)

PmmStatic ==
  /\ pmm_state = [initialized |-> FALSE, bitmap |-> NULL, bitmap_size |-> 0,
                  total_pages |-> 0, next_free_hint |-> 0,
                  total_memory_bytes |-> 0, usable_memory_bytes |-> 0]
  /\ bitmap = [i \in 0..(-1) |-> 1]
  /\ pmm_stats = [total_pages |-> 0, free_pages |-> 0, used_pages |-> 0,
                  reserved_pages |-> 0, bitmap_pages |-> 0, alloc_count |-> 0,
                  free_count |-> 0, largest_free_run |-> 0]
  /\ pmm_lock = [locked |-> 0]
  /\ last = NoCall
  /\ c6 = C6Idle
  /\ c7 = C7Idle
  /\ c18 = C18Idle
  /\ pc = [t \in Cpus |-> "idle"]
  /\ loc = [t \in Cpus |-> NoLocals]
  /\ lock_holder = "none"
  /\ live = {}
  /\ access = [fn |-> "-", held |-> TRUE]
  /\ heap_initialized = FALSE
  /\ buddy = BuddyStatic
  /\ g_caches = << >>
  /\ slabs = NoMemory
  /\ g_stats = SlabStatsZero
  /\ heap_live = << >>
  /\ heap_last = NoHeapCall
  /\ VmmStatic

(***************************************************************************)
(* PMM operations, one action per public function (whole call, run alone)  *)
(***************************************************************************)
Locked == pmm_lock.locked # 0

pmm_init ==
  /\ pmm_stats.reserved_pages < MaxReserved
  /\ ~Locked
  /\ LET regions == arch_memory_detect_regions(memmap)
         tp == ADDR_TO_PAGE(HighestAddr(regions))
         bitmap_size == (tp + 7) \div 8
         bitmap_pages_needed == PAGE_ALIGN_UP(bitmap_size) \div PAGE_SIZE
         k == FindBitmapRegion(regions, bitmap_size)
         sized == [pmm_state EXCEPT !.total_pages = tp,
                                    !.total_memory_bytes = TotalMemory(regions, 1),
                                    !.usable_memory_bytes = UsableMemory(regions, 1),
                                    !.bitmap_size = bitmap_size]
     IN IF Len(regions) = 0
        THEN /\ UNCHANGED pmmVars
             /\ Observe(Call("pmm_init", 0, 0, 0, 0, "PMM_NOT_INITIALIZED"))
        ELSE IF k = 0
        THEN /\ pmm_state' = sized
             /\ UNCHANGED <<bitmap, pmm_stats, pmm_lock>>
             /\ Observe(Call("pmm_init", 0, 0, 0, 0, "PMM_OUT_OF_MEMORY"))
        ELSE LET bitmap_addr == PAGE_ALIGN_UP(regions[k].base)
                 bm == InitialBitmap(regions, tp, bitmap_addr, bitmap_size)
             IN /\ bitmap' = bm
                /\ pmm_stats' = [pmm_stats EXCEPT
                                   !.bitmap_pages = bitmap_pages_needed,
                                   !.reserved_pages = @ + ReservedPages(regions, 1),
                                   !.free_pages = CountFree(bm, tp),
                                   !.used_pages = CountUsed(bm, tp),
                                   !.total_pages = tp]
                /\ pmm_state' = [sized EXCEPT !.bitmap = bitmap_addr,
                                              !.next_free_hint = pmm_update_hint_locked(tp, 0),
                                              !.initialized = TRUE]
                /\ UNCHANGED pmm_lock
                /\ Observe(Call("pmm_init", 0, 0, 0, 0, "PMM_SUCCESS"))
  /\ UNCHANGED <<memmap, heapVars>>

\* defect: the allocation is not added to used_pages
MarkAllocated_UsedNotCounted(start_page, count) ==
  /\ bitmap' = MarkUsedLoop(bitmap, pmm_state.total_pages, start_page, start_page + count - 1)
  /\ pmm_stats' = [pmm_stats EXCEPT !.free_pages = @ - count, !.alloc_count = @ + 1]
  /\ pmm_state' = [pmm_state EXCEPT !.next_free_hint =
                      pmm_update_hint_locked(pmm_state.total_pages, start_page + count)]

\* common tail of the four allocators: mark the pages, count them, move the hint
MarkAllocated(start_page, count) ==
  /\ bitmap' = MarkUsedLoop(bitmap, pmm_state.total_pages, start_page, start_page + count - 1)
  /\ pmm_stats' = [pmm_stats EXCEPT !.free_pages = @ - count, !.used_pages = @ + count,
                                    !.alloc_count = @ + 1]
  /\ pmm_state' = [pmm_state EXCEPT !.next_free_hint =
                      pmm_update_hint_locked(pmm_state.total_pages, start_page + count)]

\* the same tail on PMM data p, for the allocators' calls made by the slab allocator
AfterAlloc(p, start_page, count) ==
  [bitmap |-> MarkUsedLoop(p.bitmap, p.state.total_pages, start_page, start_page + count - 1),
   stats |-> [p.stats EXCEPT !.free_pages = @ - count, !.used_pages = @ + count,
                             !.alloc_count = @ + 1],
   state |-> [p.state EXCEPT !.next_free_hint =
                pmm_update_hint_locked(p.state.total_pages, start_page + count)]]

\* defect: a multi-page free is counted as one page
MarkReleased_CountsOnePage(start_page, count) ==
  /\ bitmap' = MarkFreeLoop(bitmap, pmm_state.total_pages, start_page, start_page + count - 1)
  /\ pmm_stats' = [pmm_stats EXCEPT !.free_pages = @ + 1, !.used_pages = @ - 1,
                                    !.free_count = @ + 1]
  /\ pmm_state' = [pmm_state EXCEPT !.next_free_hint =
                      IF start_page < @
                      THEN pmm_update_hint_locked(pmm_state.total_pages, start_page) ELSE @]

\* defect: a free leaves next_free_hint where it was
MarkReleased_KeepsHint(start_page, count) ==
  /\ bitmap' = MarkFreeLoop(bitmap, pmm_state.total_pages, start_page, start_page + count - 1)
  /\ pmm_stats' = [pmm_stats EXCEPT !.free_pages = @ + count, !.used_pages = @ - count,
                                    !.free_count = @ + 1]
  /\ UNCHANGED pmm_state

\* common tail of the two frees: clear the pages, count them, lower the hint
MarkReleased(start_page, count) ==
  /\ bitmap' = MarkFreeLoop(bitmap, pmm_state.total_pages, start_page, start_page + count - 1)
  /\ pmm_stats' = [pmm_stats EXCEPT !.free_pages = @ + count, !.used_pages = @ - count,
                                    !.free_count = @ + 1]
  /\ pmm_state' = [pmm_state EXCEPT !.next_free_hint =
                      IF start_page < @
                      THEN pmm_update_hint_locked(pmm_state.total_pages, start_page) ELSE @]

\* defect: only the first page of the range is validated
AllPagesUsed_FirstPageOnly(bm, tp, start_page, count) ==
  pmm_is_page_used_internal(bm, tp, start_page)

\* validation loop of pmm_free_pages: every page of the range is marked used
AllPagesUsed(bm, tp, start_page, count) ==
  \A i \in 0..(count - 1) : pmm_is_page_used_internal(bm, tp, start_page + i)

\* alignment & (alignment - 1) == 0 for the alignments the model passes
IsPowerOfTwo(x) == x \in {1, 2, 4, 8, 16, 32, 64, 128, 256, 512, 1024, 2048, 4096, 8192, 16384}

(* What each allocator does between spinlock_lock and the marking loop: the   *)
(* start page it settles on, or -1 when it unlocks and returns NULL.  p is    *)
(* the PMM's data [bitmap, state, stats] the call finds.                     *)
SearchPageIn(p) ==
  IF p.stats.free_pages = 0 THEN -1
  ELSE LET page_index == pmm_find_free_page_from(p.bitmap, p.state.total_pages,
                                                 p.state.next_free_hint)
       IN IF page_index >= p.state.total_pages THEN -1 ELSE page_index

SearchPagesIn(p, count) ==
  IF p.stats.free_pages < count THEN -1
  ELSE LET start_page == pmm_find_free_pages_from(p.bitmap, p.state.total_pages,
                                                  p.state.next_free_hint, count)
       IN IF start_page >= p.state.total_pages THEN -1 ELSE start_page

PmmNow == [bitmap |-> bitmap, state |-> pmm_state, stats |-> pmm_stats]

SearchPage == SearchPageIn(PmmNow)

SearchPages(count) == SearchPagesIn(PmmNow, count)

SearchInRange(count, start_page, end_page) ==
  WindowScan(bitmap, pmm_state.total_pages, start_page, count,
             pmm_state.total_pages + 1, end_page, PAGE_SIZE)

SearchAligned(pages, alignment) ==
  LET tp == pmm_state.total_pages
      hint == pmm_state.next_free_hint
      p1 == WindowScan(bitmap, tp, hint, pages, tp + 1, tp, alignment)
  IN IF p1 # -1 THEN p1 ELSE WindowScan(bitmap, tp, 0, pages, hint, tp, alignment)

\* what pmm_free_page / pmm_free_pages return once they hold the lock
FreeVerdict(start_page, count) ==
  IF start_page + count > pmm_state.total_pages THEN "PMM_INVALID_ADDRESS"
  ELSE IF ~AllPagesUsed(bitmap, pmm_state.total_pages, start_page, count)
  THEN "PMM_ALREADY_FREE"
  ELSE "PMM_SUCCESS"

\* the checks pmm_alloc_pages_in_range makes before it takes the lock
RangeStart(min_addr) == ADDR_TO_PAGE(PAGE_ALIGN_UP(min_addr))
RangeEnd(max_addr) == Min(ADDR_TO_PAGE(PAGE_ALIGN_DOWN(max_addr)), pmm_state.total_pages)
RangeRejected(count, min_addr, max_addr) ==
  \/ ~pmm_state.initialized \/ count = 0 \/ max_addr <= min_addr
  \/ RangeStart(min_addr) >= pmm_state.total_pages
  \/ RangeStart(min_addr) + count > RangeEnd(max_addr)

AlignedRejected(pages, alignment) ==
  \/ ~pmm_state.initialized \/ pages = 0
  \/ alignment < PAGE_SIZE \/ ~IsPowerOfTwo(alignment)

Allocated(op, a, n, b, start_page, count) ==
  /\ MarkAllocated(start_page, count)
  /\ Observe(Call(op, a, n, b, PAGE_TO_ADDR(start_page), "-"))

Refuse(op, a, n, b, res) ==
  /\ UNCHANGED <<pmm_state, bitmap, pmm_stats>>
  /\ Observe(Call(op, a, n, b, NULL, res))

Released(op, a, n, start_page, count) ==
  /\ MarkReleased(start_page, count)
  /\ Observe(Call(op, a, n, 0, NULL, "PMM_SUCCESS"))

pmm_alloc_page ==
  /\ pmm_stats.alloc_count < MaxAllocs
  /\ ~Locked
  /\ IF ~pmm_state.initialized \/ SearchPage = -1
     THEN Refuse("pmm_alloc_page", 0, 0, 0, "-")
     ELSE Allocated("pmm_alloc_page", 0, 0, 0, SearchPage, 1)
  /\ UNCHANGED <<memmap, heapVars, pmm_lock>>

pmm_alloc_pages(count) ==
  /\ pmm_stats.alloc_count < MaxAllocs
  /\ ~Locked
  /\ IF ~pmm_state.initialized \/ count = 0 \/ SearchPages(count) = -1
     THEN Refuse("pmm_alloc_pages", 0, count, 0, "-")
     ELSE Allocated("pmm_alloc_pages", 0, count, 0, SearchPages(count), count)
  /\ UNCHANGED <<memmap, heapVars, pmm_lock>>

pmm_alloc_pages_in_range(count, min_addr, max_addr) ==
  /\ pmm_stats.alloc_count < MaxAllocs
  /\ ~Locked
  /\ LET p == SearchInRange(count, RangeStart(min_addr), RangeEnd(max_addr)) IN
     IF RangeRejected(count, min_addr, max_addr) \/ p = -1
     THEN Refuse("pmm_alloc_pages_in_range", min_addr, count, max_addr, "-")
     ELSE Allocated("pmm_alloc_pages_in_range", min_addr, count, max_addr, p, count)
  /\ UNCHANGED <<memmap, heapVars, pmm_lock>>

pmm_alloc_aligned(pages, alignment) ==
  /\ pmm_stats.alloc_count < MaxAllocs
  /\ ~Locked
  /\ IF AlignedRejected(pages, alignment) \/ SearchAligned(pages, alignment) = -1
     THEN Refuse("pmm_alloc_aligned", 0, pages, alignment, "-")
     ELSE Allocated("pmm_alloc_aligned", 0, pages, alignment,
                    SearchAligned(pages, alignment), pages)
  /\ UNCHANGED <<memmap, heapVars, pmm_lock>>

\* the checks pmm_free_page / pmm_free_pages make before they take the lock
FreeEntryVerdict(pages, count) ==
  IF ~pmm_state.initialized THEN "PMM_NOT_INITIALIZED"
  ELSE IF pages = NULL \/ count = 0 THEN "PMM_INVALID_ADDRESS"
  ELSE IF pages % PAGE_SIZE # 0 THEN "PMM_INVALID_ADDRESS"
  ELSE "PMM_SUCCESS"

pmm_free_page(page) ==
  /\ pmm_stats.free_count < MaxFrees
  /\ ~Locked
  /\ IF FreeEntryVerdict(page, 1) # "PMM_SUCCESS"
     THEN Refuse("pmm_free_page", page, 0, 0, FreeEntryVerdict(page, 1))
     ELSE IF FreeVerdict(ADDR_TO_PAGE(page), 1) # "PMM_SUCCESS"
     THEN Refuse("pmm_free_page", page, 0, 0, FreeVerdict(ADDR_TO_PAGE(page), 1))
     ELSE Released("pmm_free_page", page, 0, ADDR_TO_PAGE(page), 1)
  /\ UNCHANGED <<memmap, heapVars, pmm_lock>>

pmm_free_pages(pages, count) ==
  /\ pmm_stats.free_count < MaxFrees
  /\ ~Locked
  /\ IF FreeEntryVerdict(pages, count) # "PMM_SUCCESS"
     THEN Refuse("pmm_free_pages", pages, count, 0, FreeEntryVerdict(pages, count))
     ELSE IF FreeVerdict(ADDR_TO_PAGE(pages), count) # "PMM_SUCCESS"
     THEN Refuse("pmm_free_pages", pages, count, 0, FreeVerdict(ADDR_TO_PAGE(pages), count))
     ELSE Released("pmm_free_pages", pages, count, ADDR_TO_PAGE(pages), count)
  /\ UNCHANGED <<memmap, heapVars, pmm_lock>>

Bool(b) == IF b THEN "true" ELSE "false"

\* return value of pmm_is_page_free(page) in the current state
IsPageFree(page) ==
  IF ~pmm_state.initialized \/ page = NULL THEN FALSE
  ELSE IF page % PAGE_SIZE # 0 THEN FALSE
  ELSE IF ADDR_TO_PAGE(page) >= pmm_state.total_pages THEN FALSE
  ELSE ~pmm_is_page_used_internal(bitmap, pmm_state.total_pages, ADDR_TO_PAGE(page))

pmm_is_page_free(page) ==
  /\ UNCHANGED <<memmap, heapVars, pmm_state, bitmap, pmm_stats, pmm_lock>>
  /\ Observe(Call("pmm_is_page_free", page, 0, 0, NULL, Bool(IsPageFree(page))))

\* return value of pmm_check_integrity() in the current state
CheckIntegrity ==
  IF ~pmm_state.initialized THEN FALSE
  ELSE /\ CountFree(bitmap, pmm_state.total_pages) = pmm_stats.free_pages
       /\ CountUsed(bitmap, pmm_state.total_pages) = pmm_stats.used_pages

pmm_check_integrity ==
  /\ UNCHANGED <<memmap, heapVars, pmm_state, bitmap, pmm_stats, pmm_lock>>
  /\ Observe(Call("pmm_check_integrity", 0, 0, 0, NULL, Bool(CheckIntegrity)))

RECURSIVE LargestRunLoop(_, _, _, _, _)
LargestRunLoop(bm, tp, i, current_run, max_run) ==
  IF i >= tp THEN max_run
  ELSE IF ~pmm_is_page_used_internal(bm, tp, i)
       THEN LargestRunLoop(bm, tp, i + 1, current_run + 1,
                           IF current_run + 1 > max_run THEN current_run + 1 ELSE max_run)
  ELSE LargestRunLoop(bm, tp, i + 1, 0, max_run)

pmm_find_largest_free_run ==
  /\ IF ~pmm_state.initialized
     THEN /\ UNCHANGED pmm_stats
          /\ Observe(Call("pmm_find_largest_free_run", 0, 0, 0, 0, "-"))
     ELSE LET max_run == LargestRunLoop(bitmap, pmm_state.total_pages, 0, 0, 0) IN
          /\ pmm_stats' = [pmm_stats EXCEPT !.largest_free_run = max_run]
          /\ Observe(Call("pmm_find_largest_free_run", 0, max_run, 0, 0, "-"))
  /\ UNCHANGED <<memmap, heapVars, pmm_state, bitmap, pmm_lock>>

(***************************************************************************)
(* Run-time specification: one caller at a time, any call order            *)
(***************************************************************************)
PageBytes(n) == n * PAGE_SIZE

\* reserved low page, then usable memory
MapLow == << Region(0, PAGE_SIZE, "RESERVED"),
             Region(PAGE_SIZE, PageBytes(SeqPages - 1), "USABLE") >>
\* usable memory from address 0 with a reserved hole and reclaimable tail
MapHole == << Region(0, PageBytes(3), "USABLE"),
              Region(PageBytes(3), PAGE_SIZE, "ACPI_NVS"),
              Region(PageBytes(4), PageBytes(SeqPages - 4), "BOOTLOADER_RECLAIMABLE") >>
\* nothing usable: pmm_init finds no home for the bitmap
MapNoUsable == << Region(0, PageBytes(2), "RESERVED"),
                  Region(PageBytes(2), PageBytes(2), "ACPI_RECLAIMABLE") >>
\* empty response: pmm_init finds no regions
MapEmpty == << >>

SeqMaps == {MapLow, MapHole, MapNoUsable, MapEmpty}

\* addresses handed to the calls: NULL, every page up to one past the end, a misaligned one
SeqAddrs == {PageBytes(i) : i \in 0..SeqPages} \cup {PAGE_SIZE + HALF_PAGE}
Counts == 0..MaxCount
Alignments == {HALF_PAGE, 2 * PAGE_SIZE, 3 * PAGE_SIZE}
\* [min_addr, max_addr) windows: everything, an unaligned inner window, an empty one
Ranges == { <<0, PageBytes(SeqPages + 1)>>,
            <<PAGE_SIZE + HALF_PAGE, PageBytes(4) + HALF_PAGE>>,
            <<PageBytes(3), PAGE_SIZE>> }

Init == memmap \in SeqMaps /\ PmmStatic /\ VmmUnused

Next ==
  \/ pmm_init
  \/ pmm_alloc_page
  \/ \E count \in Counts : pmm_alloc_pages(count)
  \/ \E count \in Counts, r \in Ranges : pmm_alloc_pages_in_range(count, r[1], r[2])
  \/ \E pages \in Counts, alignment \in Alignments : pmm_alloc_aligned(pages, alignment)
  \/ \E page \in SeqAddrs : pmm_free_page(page)
  \/ \E pages \in SeqAddrs, count \in Counts : pmm_free_pages(pages, count)

Spec == Init /\ [][Next]_vars

(***************************************************************************)
(* Two CPUs calling the PMM at once.  A call is cut where another CPU can  *)
(* run in between: the checks before spinlock_lock, the acquisition, the   *)
(* search, the marking with its counter and hint updates, the release.     *)
(***************************************************************************)
Idle(t) == pc[t] = "idle"
Touch(t, fn) == access' = [fn |-> fn, held |-> lock_holder = t]

\* entry of pmm_alloc_page / pmm_alloc_pages / pmm_alloc_aligned: the checks
\* made before the lock; a rejected call returns NULL at once
cpu_enter_alloc(t, op, n, align) ==
  /\ Idle(t)
  /\ pmm_stats.alloc_count < MaxAllocs
  /\ IF CASE op = "pmm_alloc_page" -> ~pmm_state.initialized
          [] op = "pmm_alloc_pages" -> ~pmm_state.initialized \/ n = 0
          [] OTHER -> AlignedRejected(n, align)
     THEN UNCHANGED <<pc, loc>>
     ELSE /\ pc' = [pc EXCEPT ![t] = "lock"]
          /\ loc' = [loc EXCEPT ![t] = [NoLocals EXCEPT !.op = op, !.n = n, !.align = align]]
  /\ UNCHANGED <<memmap, heapVars, pmmVars, obsVars, vmmVars, lock_holder, live, access>>

\* entry of pmm_free_page (n = 1) / pmm_free_pages for an allocation the CPU owns
cpu_enter_free(t, al) ==
  /\ Idle(t)
  /\ pmm_stats.free_count < MaxFrees
  /\ al \in live /\ al.cpu = t
  /\ IF FreeEntryVerdict(PAGE_TO_ADDR(al.first), al.n) # "PMM_SUCCESS"
     THEN UNCHANGED <<pc, loc>>
     ELSE /\ pc' = [pc EXCEPT ![t] = "lock"]
          /\ loc' = [loc EXCEPT ![t] = [NoLocals EXCEPT !.op = "pmm_free_pages",
                                                       !.n = al.n, !.start = al.first]]
  /\ UNCHANGED <<memmap, heapVars, pmmVars, obsVars, vmmVars, lock_holder, live, access>>

\* defect: the lock is taken without looking at the value exchanged out
spinlock_lock_Blind(t) ==
  /\ pc[t] = "lock"
  /\ pmm_lock' = [pmm_lock EXCEPT !.locked = 1]
  /\ lock_holder' = t
  /\ pc' = [pc EXCEPT ![t] = "search"]
  /\ UNCHANGED <<memmap, heapVars, pmm_state, bitmap, pmm_stats, obsVars, vmmVars, loc, live, access>>

\* spinlock_lock: the exchange returns 0 only while the lock is free
spinlock_lock(t) ==
  /\ pc[t] = "lock"
  /\ pmm_lock.locked = 0
  /\ pmm_lock' = [pmm_lock EXCEPT !.locked = 1]
  /\ lock_holder' = t
  /\ pc' = [pc EXCEPT ![t] = "search"]
  /\ UNCHANGED <<memmap, heapVars, pmm_state, bitmap, pmm_stats, obsVars, vmmVars, loc, live, access>>

\* from the lock to the decision: the free_pages test and the bitmap search of
\* an allocator, the range and used-page validation of a free
cpu_search(t) ==
  /\ pc[t] = "search"
  /\ LET l == loc[t]
         found == CASE l.op = "pmm_alloc_page" -> SearchPage
                    [] l.op = "pmm_alloc_pages" -> SearchPages(l.n)
                    [] l.op = "pmm_alloc_aligned" -> SearchAligned(l.n, l.align)
                    [] OTHER -> IF FreeVerdict(l.start, l.n) = "PMM_SUCCESS"
                                THEN l.start ELSE -1
     IN IF found = -1
        THEN pc' = [pc EXCEPT ![t] = "unlock"] /\ UNCHANGED loc
        ELSE /\ pc' = [pc EXCEPT ![t] = "mark"]
             /\ loc' = [loc EXCEPT ![t].start = found]
  /\ Touch(t, loc[t].op)
  /\ UNCHANGED <<memmap, heapVars, pmmVars, obsVars, vmmVars, lock_holder, live>>

\* the marking loop, the counters and the hint; the call's result is now fixed
cpu_mark(t) ==
  /\ pc[t] = "mark"
  /\ LET l == loc[t]
         count == IF l.op = "pmm_alloc_page" THEN 1 ELSE l.n
         al == [cpu |-> t, first |-> l.start, n |-> count]
     IN IF l.op = "pmm_free_pages"
        THEN MarkReleased(l.start, count) /\ live' = live \ {al}
        ELSE MarkAllocated(l.start, count) /\ live' = live \cup {al}
  /\ pc' = [pc EXCEPT ![t] = "unlock"]
  /\ Touch(t, loc[t].op)
  /\ UNCHANGED <<memmap, heapVars, pmm_lock, obsVars, vmmVars, loc, lock_holder>>

spinlock_unlock(t) ==
  /\ pc[t] = "unlock"
  /\ pmm_lock' = [pmm_lock EXCEPT !.locked = 0]
  /\ lock_holder' = IF lock_holder = t THEN "none" ELSE lock_holder
  /\ pc' = [pc EXCEPT ![t] = "idle"]
  /\ loc' = [loc EXCEPT ![t] = NoLocals]
  /\ UNCHANGED <<memmap, heapVars, pmm_state, bitmap, pmm_stats, obsVars, vmmVars, live, access>>

\* pmm_is_page_free, pmm_check_integrity: bitmap and counters read, no lock taken
cpu_is_page_free(t, page) ==
  /\ Idle(t)
  /\ pmm_state.initialized /\ page # NULL /\ page % PAGE_SIZE = 0
  /\ ADDR_TO_PAGE(page) < pmm_state.total_pages
  /\ Touch(t, "pmm_is_page_free")
  /\ UNCHANGED <<memmap, heapVars, pmmVars, obsVars, vmmVars, pc, loc, lock_holder, live>>

cpu_check_integrity(t) ==
  /\ Idle(t)
  /\ pmm_state.initialized
  /\ Touch(t, "pmm_check_integrity")
  /\ UNCHANGED <<memmap, heapVars, pmmVars, obsVars, vmmVars, pc, loc, lock_holder, live>>

\* pmm_find_largest_free_run: bitmap read and pmm_stats written, no lock taken
cpu_find_largest_free_run(t) ==
  /\ Idle(t)
  /\ pmm_state.initialized
  /\ pmm_stats' = [pmm_stats EXCEPT !.largest_free_run =
                      LargestRunLoop(bitmap, pmm_state.total_pages, 0, 0, 0)]
  /\ Touch(t, "pmm_find_largest_free_run")
  /\ UNCHANGED <<memmap, heapVars, pmm_state, bitmap, pmm_lock, obsVars, vmmVars, pc, loc, lock_holder, live>>

\* kmain calls pmm_init once, before any other CPU runs
boot_pmm_init ==
  /\ ~pmm_state.initialized
  /\ \A t \in Cpus : Idle(t)
  /\ pmm_init

InitCpus == memmap = MapLow /\ PmmStatic /\ VmmUnused

NextCpus ==
  \/ boot_pmm_init
  \/ \E t \in Cpus : cpu_enter_alloc(t, "pmm_alloc_page", 0, 0)
  \/ \E t \in Cpus, n \in Counts : cpu_enter_alloc(t, "pmm_alloc_pages", n, 0)
  \/ \E t \in Cpus, n \in 1..2 : cpu_enter_alloc(t, "pmm_alloc_aligned", n, 2 * PAGE_SIZE)
  \/ \E t \in Cpus, al \in live : cpu_enter_free(t, al)
  \/ \E t \in Cpus : spinlock_lock(t)
  \/ \E t \in Cpus : cpu_search(t)
  \/ \E t \in Cpus : cpu_mark(t)
  \/ \E t \in Cpus : spinlock_unlock(t)
  \/ \E t \in Cpus, page \in SeqAddrs : cpu_is_page_free(t, page)
  \/ \E t \in Cpus : cpu_check_integrity(t)
  \/ \E t \in Cpus : cpu_find_largest_free_run(t)

SpecCpus == InitCpus /\ [][NextCpus]_vars

C10_AccessOnlyUnderLock == access.held

(***************************************************************************)
(* Boot-time specification: pmm_init on every memory map of the grid, then *)
(* the read-only queries                                                   *)
(***************************************************************************)
BootTypes == {"USABLE", "RESERVED", "ACPI_RECLAIMABLE"}

\* regions whose ends lie on half-page boundaries below MaxMapHalf half pages
GridRegions ==
  { Region(h[1] * HALF_PAGE, (h[2] - h[1]) * HALF_PAGE, t) :
      h \in {x \in (0..MaxMapHalf) \X (0..MaxMapHalf) : x[1] < x[2]}, t \in BootTypes }

Disjoint(r1, r2) == r1.base + r1.length <= r2.base \/ r2.base + r2.length <= r1.base

\* What the boot protocol promises of a memory map: entries ordered by base;
\* usable and bootloader-reclaimable entries page-aligned and disjoint from
\* every other entry.  Entries of the other kinds may overlap one another.
BootProtocolMap(mm) ==
  /\ \A i, j \in 1..Len(mm) : i < j => mm[i].base <= mm[j].base
  /\ \A i \in 1..Len(mm) :
       mm[i].type \in {"USABLE", "BOOTLOADER_RECLAIMABLE"} =>
         /\ mm[i].base % PAGE_SIZE = 0
         /\ mm[i].length % PAGE_SIZE = 0
         /\ \A j \in 1..Len(mm) : j # i => Disjoint(mm[i], mm[j])

BootMaps ==
  {mm \in {<< >>} \cup {<<r>> : r \in GridRegions} \cup (GridRegions \X GridRegions)
          \cup (GridRegions \X GridRegions \X GridRegions) :
     BootProtocolMap(mm)}

BootAddrs == {i * HALF_PAGE : i \in 0..(MaxMapHalf + 1)}

InitBoot == memmap \in BootMaps /\ PmmStatic /\ VmmUnused

NextBoot ==
  \/ pmm_init
  \/ \E page \in BootAddrs : pmm_is_page_free(page)
  \/ pmm_check_integrity
  \/ pmm_find_largest_free_run

SpecBoot == InitBoot /\ [][NextBoot]_vars

TotalPages == pmm_state.total_pages

\* pages the PMM must never hand out: page 0, the pages backing the bitmap, and
\* every page touched by a reported region that is not reclaimable
BitmapBacking(page) ==
  /\ pmm_state.bitmap_size > 0
  /\ page >= pmm_state.bitmap \div PAGE_SIZE
  /\ page <= (pmm_state.bitmap + pmm_state.bitmap_size - 1) \div PAGE_SIZE

InNonReclaimableRegion(page) ==
  LET regions == arch_memory_detect_regions(memmap) IN
  \E k \in 1..Len(regions) :
    /\ ~(regions[k].type \in {"USABLE", "BOOTLOADER_RECLAIMABLE", "ACPI_RECLAIMABLE"})
    /\ regions[k].length > 0
    /\ regions[k].base < (page + 1) * PAGE_SIZE
    /\ regions[k].base + regions[k].length > page * PAGE_SIZE

ProtectedPage(page) == page = 0 \/ BitmapBacking(page) \/ InNonReclaimableRegion(page)

\* C8 as claimed: right after a successful pmm_init, on every reported memory
\* map, every page backing the bitmap, page 0 and every page of a region that
\* is not reclaimable is marked used, and pmm_is_page_free says it is not free.
C8_ProtectedPagesUsedAfterInit ==
  pmm_state.initialized =>
    /\ \A page \in 0..(TotalPages - 1) : ProtectedPage(page) => bitmap[page] = 1
    /\ (last.op = "pmm_is_page_free" /\ last.a % PAGE_SIZE = 0
          /\ ProtectedPage(last.a \div PAGE_SIZE)) => last.res = "false"

(***************************************************************************)
(* Properties of the run-time specification                                *)
(***************************************************************************)
ClearBits == {i \in 0..(TotalPages - 1) : bitmap[i] = 0}
SetBits == {i \in 0..(TotalPages - 1) : bitmap[i] = 1}

\* C1: once the PMM is initialized, after any sequence of succeeding and failing
\* allocations and frees, free_pages + used_pages equals total_pages, the number
\* of clear bits equals free_pages and the number of set bits equals used_pages.
C1_Conservation ==
  pmm_state.initialized =>
    /\ pmm_stats.free_pages + pmm_stats.used_pages = TotalPages
    /\ Cardinality(ClearBits) = pmm_stats.free_pages
    /\ Cardinality(SetBits) = pmm_stats.used_pages
    /\ CheckIntegrity

\* allocations and a multi-page free have succeeded and the last call, a free
\* of a range holding a free page, failed
C1_Witness ==
  /\ pmm_state.initialized
  /\ pmm_stats.alloc_count >= 2
  /\ pmm_stats.free_count >= 1
  /\ last.op = "pmm_free_pages" /\ last.n = 2 /\ last.res = "PMM_ALREADY_FREE"

\* C4: a free that does not return PMM_SUCCESS leaves the bitmap, the counters
\* and next_free_hint as they were; a null, misaligned or out-of-range argument
\* gives PMM_INVALID_ADDRESS, a valid range holding a free page gives
\* PMM_ALREADY_FREE, and a range is cleared only if all of it was used.
C4_FailedFreeChangesNothing ==
  [][ (last'.op \in {"pmm_free_page", "pmm_free_pages"}) =>
        LET p == last'.a
            n == IF last'.op = "pmm_free_page" THEN 1 ELSE last'.n
            first == p \div PAGE_SIZE
            invalid == p = 0 \/ p % PAGE_SIZE # 0 \/ first + n > TotalPages
            anyFree == \E i \in first..(first + n - 1) : bitmap[i] = 0
        IN /\ last'.res # "PMM_SUCCESS" =>
                /\ bitmap' = bitmap
                /\ pmm_stats' = pmm_stats
                /\ pmm_state' = pmm_state
           /\ pmm_state.initialized /\ invalid => last'.res = "PMM_INVALID_ADDRESS"
           /\ pmm_state.initialized /\ ~invalid /\ n > 0 /\ anyFree =>
                last'.res = "PMM_ALREADY_FREE"
           /\ last'.res = "PMM_SUCCESS" => ~invalid /\ ~anyFree
    ]_vars

\* free_pages was refused for a two-page range whose first page is used and
\* whose second page is free
C4_Witness ==
  /\ last.op = "pmm_free_pages" /\ last.n = 2 /\ last.res = "PMM_ALREADY_FREE"
  /\ bitmap[last.a \div PAGE_SIZE] = 1
  /\ bitmap[(last.a \div PAGE_SIZE) + 1] = 0

\* C5: pmm_alloc_pages(n) either returns the address of n contiguous pages that
\* were all free, marks exactly those pages used and moves n pages from
\* free_pages to used_pages, or returns NULL and changes neither the bitmap,
\* nor the counters, nor next_free_hint.
C5_AllocPagesAllOrNothing ==
  [][ (last'.op = "pmm_alloc_pages") =>
        LET n == last'.n
            q == last'.ptr
            first == q \div PAGE_SIZE
        IN IF q # 0
           THEN /\ n > 0 /\ q % PAGE_SIZE = 0 /\ first + n <= TotalPages
                /\ \A i \in first..(first + n - 1) : bitmap[i] = 0
                /\ bitmap' = [i \in 0..(TotalPages - 1) |->
                                IF i >= first /\ i < first + n THEN 1 ELSE bitmap[i]]
                /\ pmm_stats'.free_pages = pmm_stats.free_pages - n
                /\ pmm_stats'.used_pages = pmm_stats.used_pages + n
           ELSE /\ bitmap' = bitmap
                /\ pmm_stats' = pmm_stats
                /\ pmm_state' = pmm_state
    ]_vars

\* a two-page allocation has succeeded with a used page right after its range
C5_Witness ==
  /\ last.op = "pmm_alloc_pages" /\ last.n = 2 /\ last.ptr # 0
  /\ (last.ptr \div PAGE_SIZE) + 2 < TotalPages
  /\ pmm_stats.free_count >= 1

\* C6: when q = pmm_alloc_pages(n) is not NULL, pmm_free_pages(q, n) called next
\* returns PMM_SUCCESS and the bitmap, free_pages and used_pages are again what
\* they were before the allocation; pmm_alloc_pages(n) called next succeeds.
C6_RoundTrip ==
  /\ c6.stage = 2 =>
       /\ c6.res = "PMM_SUCCESS"
       /\ bitmap = c6.bm
       /\ pmm_stats.free_pages = c6.free
       /\ pmm_stats.used_pages = c6.used
  /\ c6.stage = 3 => c6.r # 0

\* the round trip of a two-page block was made and the second allocation returned q again
C6_Witness == c6.stage = 3 /\ c6.n = 2 /\ c6.r = c6.q

\* C7: when the first four calls after a successful pmm_init are
\* a = alloc_page(), b = alloc_page(), free_page(a), c = alloc_page() and all
\* succeed, c equals a.
C7_LowestFreeReuse == c7.stage = 5 => c7.c = c7.a

\* the four calls have been made and there was another free page above b
C7_Witness == c7.stage = 5 /\ pmm_stats.free_pages > 0

\* C9 as claimed: a pmm_init called while the PMM is already initialized leaves
\* the bitmap and the free/used counters as they were.
C9_SecondInitChangesNothing ==
  [][ (last'.op = "pmm_init" /\ pmm_state.initialized) =>
        /\ bitmap' = bitmap
        /\ pmm_stats'.free_pages = pmm_stats.free_pages
        /\ pmm_stats'.used_pages = pmm_stats.used_pages
    ]_vars

(***************************************************************************)
(* Buddy allocator, mm/heap/buddy.c.  b is the buddy_allocator_t together  *)
(* with the block headers it wrote into the region it manages.             *)
(***************************************************************************)
RECURSIVE OrderLoop(_, _, _)
\* while (block < needed && order < BUDDY_MAX_ORDER) { block <<= 1; order++; }
OrderLoop(block, needed, order) ==
  IF block < needed /\ order < BUDDY_MAX_ORDER
  THEN OrderLoop(2 * block, needed, order + 1)
  ELSE order

order_for_request(b, size) ==
  LET needed == size + b.header_size IN
  OrderLoop(BUDDY_MIN_BLOCK_SIZE,
            IF needed < BUDDY_MIN_BLOCK_SIZE THEN BUDDY_MIN_BLOCK_SIZE ELSE needed,
            BUDDY_MIN_ORDER)

index_for_addr(b, addr) == (addr - b.base_addr) \div BUDDY_MIN_BLOCK_SIZE

\* bitmap_get / bitmap_set / bitmap_clear on the set of set bit indices
bitmap_get(bits, index) == index < BuddyBitmapBits /\ index \in bits
bitmap_set_run(bits, start, count) ==
  bits \cup {i \in start..(start + count - 1) : i < BuddyBitmapBits}
\* a clearing loop that stops after its first bit
bitmap_clear_run_FirstBit(bits, start, count) == bits \ {start}
bitmap_clear_run(bits, start, count) == bits \ (start..(start + count - 1))

\* an insert_block that links the block and leaves its header as it was
insert_block_KeepsHeader(b, addr, order) ==
  [b EXCEPT !.free_lists[order] = list_insert_after(@, addr)]

insert_block(b, addr, order) ==
  [b EXCEPT !.headers = Store(@, addr, [order |-> order, magic |-> "FREE"]),
            !.free_lists[order] = list_insert_after(@, addr)]

\* list_remove(&block->node): the node leaves the list it is linked on
remove_block(b, addr) ==
  [b EXCEPT !.free_lists = [o \in Orders |-> list_remove(@[o], addr)]]

find_block(b, addr, order) ==
  \E i \in 1..Len(b.free_lists[order]) : b.free_lists[order][i] = addr

\* header of the block at addr; memory the allocator never wrote holds no magic
HeaderAt(b, addr) ==
  IF addr \in DOMAIN b.headers THEN b.headers[addr] ELSE [order |-> 0, magic |-> "NONE"]

RECURSIVE InitOrder(_, _, _)
\* the largest order whose block fits the remaining span and is aligned at addr
InitOrder(addr, remaining, order) ==
  IF order > BUDDY_MIN_ORDER /\ ~(2^order <= remaining /\ addr % (2^order) = 0)
  THEN InitOrder(addr, remaining, order - 1)
  ELSE order

RECURSIVE InitBlocks(_, _, _)
InitBlocks(b, addr, remaining) ==
  IF remaining < BUDDY_MIN_BLOCK_SIZE THEN b
  ELSE LET order == InitOrder(addr, remaining, BUDDY_MAX_ORDER) IN
       InitBlocks(insert_block(b, addr, order), addr + 2^order, remaining - 2^order)

\* [b, ok]: the allocator after buddy_init and its return value
buddy_init(b, base_addr, size_in_bytes, bitmap_bits, header_size) ==
  LET sized == [b EXCEPT !.base_addr = base_addr - (base_addr % BUDDY_MIN_BLOCK_SIZE),
                         !.total_size = size_in_bytes - (size_in_bytes % BUDDY_MIN_BLOCK_SIZE),
                         !.free_lists = [o \in Orders |-> << >>],
                         !.header_size = header_size]
  IN IF bitmap_bits < sized.total_size \div BUDDY_MIN_BLOCK_SIZE
     THEN [b |-> sized, ok |-> FALSE]
     ELSE [b |-> [InitBlocks([sized EXCEPT !.allocation_map = {}],
                             sized.base_addr, sized.total_size)
                    EXCEPT !.total_allocs = 0, !.total_frees = 0, !.failed_allocs = 0,
                           !.lock = [locked |-> 0]],
           ok |-> TRUE]

RECURSIVE FirstNonEmpty(_, _)
\* while (current <= BUDDY_MAX_ORDER && list_is_empty(&a->free_lists[current])) current++
FirstNonEmpty(b, current) ==
  IF current <= BUDDY_MAX_ORDER /\ list_is_empty(b.free_lists[current])
  THEN FirstNonEmpty(b, current + 1)
  ELSE current

RECURSIVE SplitDown(_, _, _, _)
\* while (current > order): the upper half goes back on the list of the lower order
SplitDown(b, block, current, order) ==
  IF current > order
  THEN SplitDown(insert_block(b, block + 2^(current - 1), current - 1),
                 block, current - 1, order)
  ELSE b

\* [b, result]: the allocator after buddy_alloc(size) and the address returned
buddy_alloc(b, size) ==
  IF size = 0 THEN [b |-> b, result |-> 0]
  ELSE LET order == order_for_request(b, size)
           current == FirstNonEmpty(b, order)
       IN IF current > BUDDY_MAX_ORDER
          THEN [b |-> [b EXCEPT !.failed_allocs = @ + 1], result |-> 0]
          ELSE LET block == Head(b.free_lists[current])
                   split == SplitDown(remove_block(b, block), block, current, order)
               IN [b |-> [split EXCEPT
                            !.headers = Store(@, block, [order |-> order, magic |-> "ALLOC"]),
                            !.allocation_map =
                               bitmap_set_run(@, index_for_addr(b, block),
                                              2^order \div BUDDY_MIN_BLOCK_SIZE),
                            !.total_allocs = @ + 1],
                   result |-> block + b.header_size]

RECURSIVE Coalesce(_, _, _)
\* the merge loop of buddy_free: [b, block_addr, order] when it stops
Coalesce(b, block_addr, order) ==
  IF order >= BUDDY_MAX_ORDER THEN [b |-> b, block_addr |-> block_addr, order |-> order]
  ELSE LET offset == block_addr - b.base_addr
           \* offset ^ (1UL << order)
           buddy_offset == IF (offset \div 2^order) % 2 = 0
                           THEN offset + 2^order ELSE offset - 2^order
           buddy_addr == b.base_addr + buddy_offset
           buddy_start == index_for_addr(b, buddy_addr)
           buddy_free_flag ==
             \A i \in 0..(2^order \div BUDDY_MIN_BLOCK_SIZE - 1) :
               ~bitmap_get(b.allocation_map, buddy_start + i)
       IN IF ~buddy_free_flag
             \/ ~find_block(b, buddy_addr, order)
             \/ HeaderAt(b, buddy_addr).magic # "FREE"
          THEN [b |-> b, block_addr |-> block_addr, order |-> order]
          ELSE Coalesce(remove_block(b, buddy_addr), Min(buddy_addr, block_addr), order + 1)

\* the allocator after buddy_free(addr); addr is a 64-bit value [hi, lo]
buddy_free(b, addr) ==
  LET block_addr == addr.lo - b.header_size
      order == HeaderAt(b, block_addr).order
      start == index_for_addr(b, block_addr)
      count == 2^order \div BUDDY_MIN_BLOCK_SIZE
  IN IF addr.hi # 0 \/ block_addr < b.base_addr \/ block_addr >= b.base_addr + b.total_size
     THEN b
     ELSE IF HeaderAt(b, block_addr).magic # "ALLOC" THEN b
     ELSE IF \E i \in 0..(count - 1) : ~bitmap_get(b.allocation_map, start + i) THEN b
     ELSE LET m == Coalesce([b EXCEPT !.allocation_map = bitmap_clear_run(@, start, count)],
                            block_addr, order)
          IN [insert_block(m.b, m.block_addr, m.order) EXCEPT !.total_frees = @ + 1]

(***************************************************************************)
(* Slab allocator, mm/heap/slab.c.  h holds what a slab call works on:     *)
(* [pmm, caches, slabs, stats].  A slab is named by the physical address   *)
(* of its page; its slab_t lies at VMM_X86_64_PHYS_TO_VIRT of that page.   *)
(***************************************************************************)
\* pmm_alloc_page() / pmm_alloc_pages(count) called on PMM data p: [pmm, ptr]
\* the part of both after the search: page is the page found, -1 when none
PmmTakePages(p, page, count) ==
  IF page = -1 THEN [pmm |-> p, ptr |-> NULL]
  ELSE [pmm |-> AfterAlloc(p, page, count), ptr |-> PAGE_TO_ADDR(page)]

PmmAllocPage(p) ==
  IF ~p.state.initialized THEN [pmm |-> p, ptr |-> NULL]
  ELSE PmmTakePages(p, SearchPageIn(p), 1)

PmmAllocPages(p, count) ==
  IF ~p.state.initialized \/ count = 0 THEN [pmm |-> p, ptr |-> NULL]
  ELSE PmmTakePages(p, SearchPagesIn(p, count), count)

\* (sizeof(slab_cache_t) + PAGE_SIZE - 1) / PAGE_SIZE
SlabCachePages == 1

\* index of the cache with the smallest object_size >= size, 0 when there is none
find_best_cache(caches, size) ==
  LET fit == {i \in 1..Len(caches) : caches[i].object_size >= size} IN
  IF fit = {} THEN 0
  ELSE CHOOSE i \in fit : \A j \in fit :
         caches[i].object_size < caches[j].object_size
         \/ (caches[i].object_size = caches[j].object_size /\ i <= j)

\* create_slab once alloc_page() returned a: [h, slab]
SlabOnPage(h, ci, a) ==
  LET page == VMM_X86_64_PHYS_TO_VIRT(a.ptr)
      object_size == h.caches[ci].object_size
      objs == SLAB_OBJECTS_PER_PAGE(object_size)
      obj_area == page.lo + SizeofSlab
      \* every object is pushed on the free list: the last one ends up first
      free_list == [i \in 1..objs |-> Ptr(page.hi, obj_area + (objs - i) * object_size)]
  IN IF a.ptr = NULL THEN [h |-> h, slab |-> NULL]
     ELSE [h |-> [h EXCEPT
                    !.pmm = a.pmm,
                    !.slabs = Store(@, a.ptr,
                                [page_addr |-> VMM_X86_64_VIRT_TO_PHYS(page).lo,
                                 object_size |-> object_size, magic |-> "SLAB_MAGIC",
                                 total_objects |-> objs, free_objects |-> objs,
                                 free_list |-> free_list]),
                    !.caches[ci].total_slabs = @ + 1,
                    !.caches[ci].total_objects = @ + objs,
                    !.stats.total_slabs = @ + 1,
                    !.stats.total_memory = @ + SLAB_PAGE_SIZE,
                    !.stats.overhead_memory = @ + SizeofSlab],
           slab |-> a.ptr]

\* [h, slab]: slab is the page of the new slab, NULL when the PMM has no page
create_slab(h, ci) == SlabOnPage(h, ci, PmmAllocPage(h.pmm))

\* list_remove(&slab->node): the slab leaves the list of the cache it is linked on
CacheUnlink(cache, slab) ==
  [cache EXCEPT !.full_slabs = list_remove(@, slab),
                !.partial_slabs = list_remove(@, slab),
                !.empty_slabs = list_remove(@, slab)]

\* a slab create_slab returned goes on the partial list; c is [h, slab]
LinkNewSlab(c, ci) ==
  IF c.slab = NULL THEN c
  ELSE [h |-> [c.h EXCEPT !.caches[ci].partial_slabs = list_insert_after(@, c.slab)],
        slab |-> c.slab]

\* the slab slab_cache_alloc takes the object from: [h, slab]
PickSlab(h, ci) ==
  LET cache == h.caches[ci] IN
  IF ~list_is_empty(cache.partial_slabs) THEN [h |-> h, slab |-> Head(cache.partial_slabs)]
  ELSE IF ~list_is_empty(cache.empty_slabs)
  THEN LET slab == Head(cache.empty_slabs) IN
       [h |-> [h EXCEPT !.caches[ci] =
                 [CacheUnlink(@, slab) EXCEPT !.partial_slabs = list_insert_after(@, slab)]],
        slab |-> slab]
  ELSE LinkNewSlab(create_slab(h, ci), ci)

\* slab_cache_alloc once the slab is chosen; pick is [h, slab]
TakeObject(h, ci, pick) ==
  LET slab == pick.slab
      obj == Head(pick.h.slabs[slab].free_list)
      popped == [pick.h EXCEPT !.slabs[slab].free_list = Tail(@),
                               !.slabs[slab].free_objects = @ - 1]
      moved == IF popped.slabs[slab].free_objects = 0
               THEN [popped EXCEPT !.caches[ci] =
                       [CacheUnlink(@, slab) EXCEPT !.full_slabs = list_insert_after(@, slab)]]
               ELSE popped
  IN IF slab = NULL
     THEN [h |-> [h EXCEPT !.stats.failed_allocs = @ + 1], obj |-> NullPtr]
     ELSE [h |-> [moved EXCEPT !.caches[ci].allocated_objects = @ + 1,
                               !.caches[ci].alloc_count = @ + 1,
                               !.stats.total_allocs = @ + 1,
                               !.stats.allocated_memory = @ + h.caches[ci].object_size],
           obj |-> obj]

\* defect: the slab that gave its last free object stays where it is linked
slab_cache_alloc_StaysLinked(h, ci) ==
  LET pick == PickSlab(h, ci)
      slab == pick.slab
      popped == [pick.h EXCEPT !.slabs[slab].free_list = Tail(@),
                               !.slabs[slab].free_objects = @ - 1]
  IN IF slab = NULL
     THEN [h |-> [h EXCEPT !.stats.failed_allocs = @ + 1], obj |-> NullPtr]
     ELSE [h |-> [popped EXCEPT !.caches[ci].allocated_objects = @ + 1,
                                !.caches[ci].alloc_count = @ + 1,
                                !.stats.total_allocs = @ + 1,
                                !.stats.allocated_memory = @ + h.caches[ci].object_size],
           obj |-> Head(pick.h.slabs[slab].free_list)]

\* [h, obj]: obj is the pointer returned, NullPtr on failure
slab_cache_alloc(h, ci) == TakeObject(h, ci, PickSlab(h, ci))

\* a slab_cache_free that pushes the object and moves the slab, and leaves
\* cache->allocated_objects as it was
slab_cache_free_KeepsCount(h, ci, ptr) ==
  LET slab == ptr.lo - (ptr.lo % SLAB_PAGE_SIZE)
      pushed == [h EXCEPT !.slabs[slab].free_list = <<ptr>> \o @,
                          !.slabs[slab].free_objects = @ + 1]
      s == pushed.slabs[slab]
  IN IF ~(slab \in DOMAIN h.slabs) \/ h.slabs[slab].magic # "SLAB_MAGIC" THEN h
     ELSE [pushed EXCEPT !.caches[ci] =
             IF s.free_objects = s.total_objects
             THEN [CacheUnlink(@, slab) EXCEPT !.empty_slabs = list_insert_after(@, slab)]
             ELSE [CacheUnlink(@, slab) EXCEPT !.partial_slabs = list_insert_after(@, slab)],
                         !.caches[ci].free_count = @ + 1,
                         !.stats.total_frees = @ + 1]

RECURSIVE NodesBefore(_, _)
\* the nodes of a free list met before ptr, walking from its head
NodesBefore(list, ptr) ==
  IF list = << >> \/ Head(list) = ptr THEN << >>
  ELSE <<Head(list)>> \o NodesBefore(Tail(list), ptr)

\* obj->next_free = slab->free_list; slab->free_list = obj.  The list is what a
\* walk from the head meets: when obj is already linked, the store into its
\* next_free closes the list on itself and the walk goes round
PushFree(list, ptr) ==
  LET round == <<ptr>> \o NodesBefore(list, ptr) IN
  IF \A i \in 1..Len(list) : list[i] # ptr THEN <<ptr>> \o list
  ELSE [i \in 1..MaxFreeWalk |-> round[((i - 1) % Len(round)) + 1]]

\* h after slab_cache_free(cache, ptr)
slab_cache_free(h, ci, ptr) ==
  LET slab == ptr.lo - (ptr.lo % SLAB_PAGE_SIZE)
      pushed == [h EXCEPT !.slabs[slab].free_list = PushFree(@, ptr),
                          !.slabs[slab].free_objects = @ + 1]
      s == pushed.slabs[slab]
      moved == [pushed EXCEPT !.caches[ci] =
                  IF s.free_objects = s.total_objects
                  THEN [CacheUnlink(@, slab) EXCEPT !.empty_slabs = list_insert_after(@, slab)]
                  ELSE [CacheUnlink(@, slab) EXCEPT !.partial_slabs = list_insert_after(@, slab)]]
  IN IF ~(slab \in DOMAIN h.slabs) \/ h.slabs[slab].magic # "SLAB_MAGIC" THEN h
     ELSE [moved EXCEPT !.caches[ci].allocated_objects = @ - 1,
                        !.caches[ci].free_count = @ + 1,
                        !.stats.total_frees = @ + 1,
                        !.stats.allocated_memory =
                           IF @ >= h.caches[ci].object_size
                           THEN @ - h.caches[ci].object_size ELSE @]

\* slab_cache_create once the pages of the descriptor were asked for: a is
\* what pmm_alloc_pages returned
CacheOnPages(h, object_size, align, ctor, dtor, a) ==
  LET al == IF align = 0 THEN 1 ELSE align
      sized == IF object_size < SizeofSlabObject THEN SizeofSlabObject ELSE object_size
      rounded == ((sized + al - 1) \div al) * al
  IN IF a.ptr = NULL THEN h
     ELSE [h EXCEPT
             !.pmm = a.pmm,
             !.caches = Append(@, [addr |-> a.ptr, object_size |-> rounded, align |-> al,
                                   full_slabs |-> << >>, partial_slabs |-> << >>,
                                   empty_slabs |-> << >>, total_slabs |-> 0,
                                   total_objects |-> 0, allocated_objects |-> 0,
                                   alloc_count |-> 0, free_count |-> 0,
                                   ctor |-> ctor, dtor |-> dtor,
                                   lock |-> [locked |-> 0]]),
             !.stats.total_caches = @ + 1,
             !.stats.overhead_memory = @ + SlabCachePages * PAGE_SIZE]

\* h after slab_cache_create(name, object_size, align, ctor, dtor)
slab_cache_create(h, object_size, align, ctor, dtor) ==
  IF Len(h.caches) >= SLAB_MAX_CACHES \/ object_size = 0
     \/ ~IsPowerOfTwo(IF align = 0 THEN 1 ELSE align)
  THEN h
  ELSE CacheOnPages(h, object_size, align, ctor, dtor,
                    PmmAllocPages(h.pmm, SlabCachePages))

RECURSIVE SlabInitLoop(_, _)
SlabInitLoop(h, i) ==
  IF i > Len(default_sizes) \/ Len(h.caches) >= SLAB_MAX_CACHES THEN h
  ELSE SlabInitLoop(slab_cache_create(h, default_sizes[i], default_sizes[i],
                                      NoCallback, NoCallback), i + 1)

slab_init(h) == SlabInitLoop([h EXCEPT !.stats = SlabStatsZero, !.caches = << >>], 1)

slab_alloc(h, size) ==
  LET ci == find_best_cache(h.caches, size) IN
  IF size = 0 \/ size > SLAB_MAX_SIZE THEN [h |-> h, obj |-> NullPtr]
  ELSE IF ci = 0 THEN [h |-> [h EXCEPT !.stats.failed_allocs = @ + 1], obj |-> NullPtr]
  ELSE slab_cache_alloc(h, ci)

\* defect: the pointer is compared with the slab addresses as it is, without
\* masking it down to its page
slab_find_cache_for_ptr_Unmasked(caches, ptr) ==
  LET holds(i) == \E l \in {caches[i].full_slabs, caches[i].partial_slabs,
                            caches[i].empty_slabs} :
                    \E k \in 1..Len(l) : VMM_X86_64_PHYS_TO_VIRT(l[k]) = ptr
      found == {i \in 1..Len(caches) : holds(i)}
  IN IF ~SLAB_PTR_VALID(ptr) \/ found = {} THEN 0
     ELSE CHOOSE i \in found : \A j \in found : i <= j

\* index of the cache one of whose lists holds the slab at ptr & ~(SLAB_PAGE_SIZE - 1)
slab_find_cache_for_ptr(caches, ptr) ==
  LET base == Ptr(ptr.hi, ptr.lo - (ptr.lo % SLAB_PAGE_SIZE))
      holds(i) == \E l \in {caches[i].full_slabs, caches[i].partial_slabs,
                            caches[i].empty_slabs} :
                    \E k \in 1..Len(l) : VMM_X86_64_PHYS_TO_VIRT(l[k]) = base
      found == {i \in 1..Len(caches) : holds(i)}
  IN IF ~SLAB_PTR_VALID(ptr) \/ found = {} THEN 0
     ELSE CHOOSE i \in found : \A j \in found : i <= j

(***************************************************************************)
(* Heap facade, mm/heap/heap.c                                             *)
(***************************************************************************)
RECURSIVE LargestUsable(_, _, _, _)
\* the scan of memory_find_largest_region over the boot memory map
LargestUsable(mm, i, largest_base, largest_size) ==
  IF i > Len(mm) THEN [ok |-> largest_size > 0, base |-> largest_base, length |-> largest_size]
  ELSE IF mm[i].type = "USABLE" /\ mm[i].length > largest_size
  THEN LargestUsable(mm, i + 1, mm[i].base, mm[i].length)
  ELSE LargestUsable(mm, i + 1, largest_base, largest_size)

memory_find_largest_region(mm) == LargestUsable(mm, 1, 0, 0)

HeapNow == [pmm |-> PmmNow, caches |-> g_caches, slabs |-> slabs, stats |-> g_stats]

\* what a slab call leaves behind in the PMM and in the slab allocator
SetHeap(h) ==
  /\ bitmap' = h.pmm.bitmap
  /\ pmm_state' = h.pmm.state
  /\ pmm_stats' = h.pmm.stats
  /\ g_caches' = h.caches
  /\ slabs' = h.slabs
  /\ g_stats' = h.stats

SlabUntouched == UNCHANGED <<bitmap, pmm_state, pmm_stats, g_caches, slabs, g_stats>>

\* a heap call ends every call sequence the PMM observers follow
HeapReturn(op, size, ptr) ==
  /\ heap_last' = HeapCall(op, size, ptr)
  /\ Observe(Call(op, 0, size, 0, NULL, "-"))

\* kmain calls heap_init once, after pmm_init succeeded; a failure panics
heap_init ==
  /\ pmm_state.initialized /\ ~heap_initialized /\ ~Locked
  /\ \E header_size \in BuddyHeaderSizes :
       LET r == memory_find_largest_region(memmap)
           bi == buddy_init(buddy, PAGE_ALIGN_UP(r.base), PAGE_ALIGN_DOWN(r.length),
                            BuddyBitmapBits, header_size)
       IN IF ~r.ok THEN UNCHANGED <<buddy, heap_initialized>> /\ SlabUntouched
          ELSE IF ~bi.ok
          THEN buddy' = bi.b /\ UNCHANGED heap_initialized /\ SlabUntouched
          ELSE /\ buddy' = bi.b
               /\ SetHeap(slab_init(HeapNow))
               /\ heap_initialized' = TRUE
  /\ HeapReturn("heap_init", 0, NullPtr)
  /\ UNCHANGED <<memmap, pmm_lock, heap_live>>

\* allocation calls that reached the slab or the buddy allocator so far
HeapAllocCalls ==
  g_stats.total_allocs + g_stats.failed_allocs + buddy.total_allocs + buddy.failed_allocs

kmalloc(size) ==
  /\ HeapAllocCalls < MaxHeapAllocs
  /\ ~Locked
  /\ IF ~heap_initialized \/ size = 0
     THEN /\ UNCHANGED <<buddy, heap_live>> /\ SlabUntouched
          /\ HeapReturn("kmalloc", size, NullPtr)
     ELSE IF size <= HEAP_SLAB_MAX_SIZE
     THEN LET r == slab_alloc(HeapNow, size) IN
          /\ SetHeap(r.h)
          /\ UNCHANGED buddy
          /\ heap_live' = IF r.obj = NullPtr THEN heap_live
                          ELSE Append(heap_live, [ptr |-> r.obj, size |-> size])
          /\ HeapReturn("kmalloc", size, r.obj)
     ELSE LET r == buddy_alloc(buddy, size)
              ptr == IF r.result = 0 THEN NullPtr ELSE vmm_phys_to_virt(r.result)
          IN /\ buddy' = r.b
             /\ SlabUntouched
             /\ heap_live' = IF ptr = NullPtr THEN heap_live
                             ELSE Append(heap_live, [ptr |-> ptr, size |-> size])
             /\ HeapReturn("kmalloc", size, ptr)
  /\ UNCHANGED <<memmap, pmm_lock, heap_initialized>>

\* kfree of a pointer kmalloc returned and the caller did not free yet
kfree(ptr) ==
  /\ \E k \in 1..Len(heap_live) : heap_live[k].ptr = ptr
  /\ ~Locked
  /\ LET ci == slab_find_cache_for_ptr(g_caches, ptr) IN
     IF ~heap_initialized \/ ptr = NullPtr THEN UNCHANGED buddy /\ SlabUntouched
     ELSE IF SLAB_PTR_VALID(ptr) /\ ci # 0
     THEN SetHeap(slab_cache_free(HeapNow, ci, ptr)) /\ UNCHANGED buddy
     ELSE buddy' = buddy_free(buddy, vmm_virt_to_phys(ptr)) /\ SlabUntouched
  /\ LET k == CHOOSE i \in 1..Len(heap_live) :
                heap_live[i].ptr = ptr /\ \A j \in 1..(i - 1) : heap_live[j].ptr # ptr
     IN heap_live' = SubSeq(heap_live, 1, k - 1) \o SubSeq(heap_live, k + 1, Len(heap_live))
  /\ HeapReturn("kfree", 0, ptr)
  /\ UNCHANGED <<memmap, pmm_lock, heap_initialized>>

(***************************************************************************)
(* Heap specification: boot as kmain does, then any order of kmalloc and   *)
(* kfree by one caller that frees only what it was given, once             *)
(***************************************************************************)
\* a reserved low page, low usable memory, and a 1 MiB usable region at 1 MiB
HeapMap == << Region(0, PAGE_SIZE, "RESERVED"),
              Region(PAGE_SIZE, PageBytes(HeapLowPages), "USABLE"),
              Region(2^BUDDY_MAX_ORDER, 2^BUDDY_MAX_ORDER, "USABLE") >>

\* request sizes: nothing, slab classes, the first buddy size, a quarter of
\* the largest block, the largest block
HeapSizes == {0, 16, HEAP_SLAB_MAX_SIZE, HEAP_SLAB_MAX_SIZE + 1,
              2^(BUDDY_MAX_ORDER - 2), 2^BUDDY_MAX_ORDER}

InitHeap == memmap = HeapMap /\ PmmStatic /\ VmmUnused

NextHeap ==
  \/ boot_pmm_init
  \/ heap_init
  \/ \E size \in HeapSizes : kmalloc(size)
  \/ \E k \in 1..Len(heap_live) : kfree(heap_live[k].ptr)

SpecHeap == InitHeap /\ [][NextHeap]_vars

\* the slab page the allocation lies in is a slab of the allocator, the object
\* is not on its free list, and [p, p + size) stays inside the page
InSlabPage(a) ==
  LET page == a.ptr.lo - (a.ptr.lo % SLAB_PAGE_SIZE) IN
  /\ a.ptr.hi = DIRECT_MAP_HI
  /\ page \in DOMAIN slabs
  /\ slabs[page].magic = "SLAB_MAGIC"
  /\ \A i \in 1..Len(slabs[page].free_list) : slabs[page].free_list[i] # a.ptr
  /\ page + SizeofSlab <= a.ptr.lo
  /\ a.ptr.lo + a.size <= page + SLAB_PAGE_SIZE

\* the buddy block in front of the pointer is allocated, on no free list, and
\* [p, p + size) stays inside the block
InBuddyBlock(a) ==
  LET block == a.ptr.lo - buddy.header_size
      order == HeaderAt(buddy, block).order
  IN /\ a.ptr.hi = KERNEL_BASE_HI
     /\ HeaderAt(buddy, block).magic = "ALLOC"
     /\ \A o \in Orders : ~find_block(buddy, block, o)
     /\ buddy.base_addr <= block
     /\ block + 2^order <= buddy.base_addr + buddy.total_size
     /\ a.ptr.lo + a.size <= block + 2^order

\* C3 as claimed: after any sequence of kmalloc and kfree calls in which every
\* freed pointer came from an earlier kmalloc and is freed once, the byte
\* ranges [p, p + requested size) of the live allocations are pairwise
\* disjoint in physical memory, and each lies inside a slab page or a buddy
\* block that the allocator holds for it.
C3_LiveRangesOwnedAndDisjoint ==
  /\ \A i \in 1..Len(heap_live) : InSlabPage(heap_live[i]) \/ InBuddyBlock(heap_live[i])
  /\ \A i, j \in 1..Len(heap_live) :
       i < j => \/ heap_live[i].ptr.lo + heap_live[i].size <= heap_live[j].ptr.lo
                \/ heap_live[j].ptr.lo + heap_live[j].size <= heap_live[i].ptr.lo

(***************************************************************************)
(* Buddy specification: one caller initialises a buddy allocator over a    *)
(* region and then calls buddy_alloc and buddy_free on it in any order,    *)
(* freeing only addresses buddy_alloc returned, each once                  *)
(***************************************************************************)
\* [base, size]: the 1 MiB region at 1 MiB, and page-aligned regions whose base
\* is not a multiple of the larger block sizes
BuddyRegions == { <<2^BUDDY_MAX_ORDER, 2^BUDDY_MAX_ORDER>>,
                  <<PAGE_SIZE, PageBytes(3)>>,
                  <<PageBytes(2), PageBytes(4)>> }

\* request sizes: nothing, one byte (a 4 KiB block), 4096 bytes (with the header
\* an 8 KiB block), half of the largest block, the largest block
BuddySizes == {0, 1, BUDDY_MIN_BLOCK_SIZE, 2^(BUDDY_MAX_ORDER - 1), 2^BUDDY_MAX_ORDER}

BuddyUntouched ==
  UNCHANGED <<memmap, pmmVars, heap_initialized, g_caches, slabs, g_stats>>

BuddyReturn(op, size, ptr, res) ==
  /\ heap_last' = HeapCall(op, size, Ptr(0, ptr))
  /\ Observe(Call(op, 0, size, 0, ptr, res))

\* buddy_init(&a, base_addr, size_in_bytes, bitmap_storage, bitmap_bits), once
buddy_init_call(base_addr, size_in_bytes, header_size) ==
  /\ buddy = BuddyStatic
  /\ LET bi == buddy_init(buddy, base_addr, size_in_bytes, BuddyBitmapBits, header_size) IN
     /\ buddy' = bi.b
     /\ BuddyReturn("buddy_init", size_in_bytes, base_addr, Bool(bi.ok))
  /\ UNCHANGED heap_live
  /\ BuddyUntouched

buddy_alloc_call(size) ==
  /\ buddy.total_size > 0
  /\ buddy.total_allocs + buddy.failed_allocs < MaxBuddyAllocs
  /\ LET r == buddy_alloc(buddy, size) IN
     /\ buddy' = r.b
     /\ heap_live' = IF r.result = 0 THEN heap_live
                     ELSE Append(heap_live, [ptr |-> Ptr(0, r.result), size |-> size])
     /\ BuddyReturn("buddy_alloc", size, r.result, "-")
  /\ BuddyUntouched

buddy_free_call(k) ==
  /\ buddy' = buddy_free(buddy, heap_live[k].ptr)
  /\ heap_live' = SubSeq(heap_live, 1, k - 1) \o SubSeq(heap_live, k + 1, Len(heap_live))
  /\ BuddyReturn("buddy_free", 0, heap_live[k].ptr.lo, "-")
  /\ BuddyUntouched

InitBuddy == memmap = MapEmpty /\ PmmStatic /\ VmmUnused

NextBuddy ==
  \/ \E r \in BuddyRegions, header_size \in BuddyHeaderSizes :
       buddy_init_call(r[1], r[2], header_size)
  \/ \E size \in BuddySizes : buddy_alloc_call(size)
  \/ \E k \in 1..Len(heap_live) : buddy_free_call(k)

SpecBuddy == InitBuddy /\ [][NextBuddy]_vars

\* the blocks on the free list of an order, and the lists buddy_init builds over
\* the region the allocator manages
FreeBlocks(b, o) == {b.free_lists[o][i] : i \in 1..Len(b.free_lists[o])}
ListsAfterInit ==
  buddy_init(BuddyStatic, buddy.base_addr, buddy.total_size, BuddyBitmapBits,
             buddy.header_size).b

\* C18 as claimed: after buddy_init over a region, successful allocations
\* followed by freeing every allocated block, in any order, leave on the free
\* lists the blocks that were there right after init; for a 1 MiB region that
\* is one free block of 1 MiB.
C18_FreeingAllRestoresInitLists ==
  (c18.stage = "freeing" /\ heap_live = << >>) =>
     /\ \A o \in Orders : FreeBlocks(buddy, o) = FreeBlocks(ListsAfterInit, o)
     /\ buddy.total_size = 2^BUDDY_MAX_ORDER =>
          /\ Len(buddy.free_lists[BUDDY_MAX_ORDER]) = 1
          /\ \A o \in Orders \ {BUDDY_MAX_ORDER} : buddy.free_lists[o] = << >>

\* C19 as claimed: after buddy_init and after any sequence of buddy_alloc and
\* buddy_free calls, the address of every block on the order-k free list is a
\* multiple of 1 << k, for every region the allocator accepts.
C19_FreeBlocksAligned ==
  \A o \in Orders : \A addr \in FreeBlocks(buddy, o) : addr % (2^o) = 0

\* C20 as claimed: a successful buddy_alloc returns an address that is a
\* multiple of the size (1 << order) of the block allocated for it.
C20_AllocationAligned ==
  (heap_last.op = "buddy_alloc" /\ heap_last.ptr # NullPtr) =>
     heap_last.ptr.lo % (2^HeaderAt(buddy, heap_last.ptr.lo - buddy.header_size).order) = 0

(***************************************************************************)
(* PMM calls made from inside the VMM, on PMM data p                       *)
(***************************************************************************)
\* pmm_free_page(page): p after the call
PmmFreePage(p, page) ==
  IF ~p.state.initialized \/ page = NULL \/ page % PAGE_SIZE # 0 THEN p
  ELSE IF ADDR_TO_PAGE(page) + 1 > p.state.total_pages THEN p
  ELSE IF ~AllPagesUsed(p.bitmap, p.state.total_pages, ADDR_TO_PAGE(page), 1) THEN p
  ELSE [bitmap |-> MarkFreeLoop(p.bitmap, p.state.total_pages,
                                ADDR_TO_PAGE(page), ADDR_TO_PAGE(page)),
        stats |-> [p.stats EXCEPT !.free_pages = @ + 1, !.used_pages = @ - 1,
                                  !.free_count = @ + 1],
        state |-> [p.state EXCEPT !.next_free_hint =
                     IF ADDR_TO_PAGE(page) < @
                     THEN pmm_update_hint_locked(p.state.total_pages, ADDR_TO_PAGE(page))
                     ELSE @]]

RECURSIVE FreeFrames(_, _)
\* pmm_free_page on every frame of a sequence, in order
FreeFrames(p, frames) ==
  IF frames = << >> THEN p ELSE FreeFrames(PmmFreePage(p, Head(frames)), Tail(frames))

\* pmm_alloc_pages_in_range(1, 0, 0x100000000): every page of the model lies
\* below 4 GiB, so the scan runs from page 0 to total_pages
PmmAllocPageBelow4G(p) ==
  IF ~p.state.initialized \/ p.state.total_pages = 0 THEN [pmm |-> p, ptr |-> NULL]
  ELSE PmmTakePages(p, WindowScan(p.bitmap, p.state.total_pages, 0, 1,
                                  p.state.total_pages + 1, p.state.total_pages, PAGE_SIZE), 1)

RECURSIVE Concat(_)
Concat(ss) == IF ss = << >> THEN << >> ELSE Head(ss) \o Concat(Tail(ss))

\* the indices below n whose entry in a table has the present bit, ascending
PresentIdx(mem, table, n) ==
  LET S == {i \in 0..(n - 1) : table \in DOMAIN mem /\ i \in DOMAIN mem[table]
                               /\ "P" \in mem[table][i].bits}
  IN [k \in 1..Cardinality(S) |-> CHOOSE i \in S : Cardinality({j \in S : j < i}) = k - 1]

(***************************************************************************)
(* x86_64 back end with the one-page interface,                            *)
(* arch/x86_64/memory/vmm.c.  m holds what a call works on: the heap and   *)
(* PMM data of HeapNow, mem (the page-table memory) and spaces (the        *)
(* vmm_space objects, each [pml4_phys]).                                   *)
(***************************************************************************)
ArchFlags == {"WRITE", "USER", "NOEXEC", "GLOBAL", "UC", "WT", "WC"}
\* sizeof(struct vmm_space): one uint64_t
SizeofArchSpace == 8

\* [rc, bits]: the return value and *out_pte_bits
map_flags_to_pte(flags) ==
  IF "WC" \in flags THEN [rc |-> -1, bits |-> {}]
  ELSE [rc |-> 0,
        bits |-> {"P"} \cup (IF "WRITE" \in flags THEN {"RW"} ELSE {})
                       \cup (IF "USER" \in flags THEN {"US"} ELSE {})
                       \cup (IF "NOEXEC" \in flags THEN {"NX"} ELSE {})
                       \cup (IF "GLOBAL" \in flags THEN {"G"} ELSE {})
                       \cup (IF "UC" \in flags THEN {"PCD", "PWT"} ELSE {})
                       \cup (IF "WT" \in flags THEN {"PWT"} ELSE {})]

\* ensure_subtable once pmm_alloc_page returned a: [m, phys]
SubtableOnPage(m, tbl, idx, need_user, a) ==
  IF a.ptr = NULL THEN [m |-> [m EXCEPT !.pmm = a.pmm], phys |-> 0]
  ELSE [m |-> [m EXCEPT !.pmm = a.pmm,
                        !.mem = WritePte(ZeroTable(@, a.ptr), tbl, idx,
                                         Pte(PTE_ADDR_MASK(a.ptr),
                                             IF need_user THEN {"P", "RW", "US"}
                                             ELSE {"P", "RW"}))],
        phys |-> a.ptr]

ensure_subtable(m, tbl, idx, need_user) ==
  IF "P" \in ReadPte(m.mem, tbl, idx).bits
  THEN [m |-> m, phys |-> PTE_ADDR_MASK(ReadPte(m.mem, tbl, idx).addr)]
  ELSE SubtableOnPage(m, tbl, idx, need_user, PmmAllocPage(m.pmm))

\* one level of walk_get_pte: the table tbl[idx] leads to, 0 when there is none
WalkLevel(m, tbl, idx, create, need_user) ==
  IF ReadPte(m.mem, tbl, idx).addr # 0
  THEN [m |-> m, phys |-> ReadPte(m.mem, tbl, idx).addr]
  ELSE IF ~create THEN [m |-> m, phys |-> 0]
  ELSE ensure_subtable(m, tbl, idx, need_user)

\* a pointer to an entry: the table it lies in and its index; table 0 is NULL
PtePtr(table, idx) == [table |-> table, idx |-> idx]
NullPte == PtePtr(0, 0)

WalkFromPt(r, virt) ==
  IF r.phys = 0 THEN [m |-> r.m, pte |-> NullPte]
  ELSE [m |-> r.m, pte |-> PtePtr(r.phys, IDX_PT(virt))]

WalkFromPd(r, virt, create, need_user) ==
  IF r.phys = 0 \/ "PS" \in ReadPte(r.m.mem, r.phys, IDX_PD(virt)).bits
  THEN [m |-> r.m, pte |-> NullPte]
  ELSE WalkFromPt(WalkLevel(r.m, r.phys, IDX_PD(virt), create, need_user), virt)

WalkFromPdpt(r, virt, create, need_user) ==
  IF r.phys = 0 THEN [m |-> r.m, pte |-> NullPte]
  ELSE WalkFromPd(WalkLevel(r.m, r.phys, IDX_PDPT(virt), create, need_user),
                  virt, create, need_user)

\* [m, pte]: the memory after the walk and the leaf entry it returns
walk_get_pte(m, space, virt, create, need_user) ==
  IF m.spaces[space].pml4_phys = 0 THEN [m |-> m, pte |-> NullPte]
  ELSE WalkFromPdpt(WalkLevel(m, m.spaces[space].pml4_phys, IDX_PML4(virt),
                              create, need_user),
                    virt, create, need_user)

\* arch_vmm_map after the walk returned w
MapLeaf(w, phys, pte_bits) ==
  IF w.pte = NullPte THEN [m |-> w.m, res |-> "ARCH_VMM_ENOMEM"]
  ELSE IF "P" \in ReadPte(w.m.mem, w.pte.table, w.pte.idx).bits
  THEN [m |-> w.m, res |-> "ARCH_VMM_EBUSY"]
  ELSE [m |-> [w.m EXCEPT !.mem = WritePte(@, w.pte.table, w.pte.idx,
                                           Pte(PTE_ADDR_MASK(phys), pte_bits))],
        res |-> "ARCH_VMM_OK"]

\* [m, res]
arch_vmm_map(m, space, virt, phys, flags) ==
  IF space = NullPtr \/ m.spaces[space].pml4_phys = 0
  THEN [m |-> m, res |-> "ARCH_VMM_EINVAL"]
  ELSE IF virt.lo % PAGE_SIZE # 0 \/ phys % PAGE_SIZE # 0
  THEN [m |-> m, res |-> "ARCH_VMM_EINVAL"]
  ELSE IF map_flags_to_pte(flags).rc # 0 THEN [m |-> m, res |-> "ARCH_VMM_EUNSUPPORTED"]
  ELSE MapLeaf(walk_get_pte(m, space, virt, TRUE, "USER" \in flags),
               phys, map_flags_to_pte(flags).bits)

\* arch_vmm_unmap after the walk returned w
UnmapLeaf(w) ==
  IF w.pte = NullPte \/ "P" \notin ReadPte(w.m.mem, w.pte.table, w.pte.idx).bits
  THEN [m |-> w.m, res |-> "ARCH_VMM_ENOMAP"]
  ELSE [m |-> [w.m EXCEPT !.mem = WritePte(@, w.pte.table, w.pte.idx, ZeroPte)],
        res |-> "ARCH_VMM_OK"]

\* [m, res]
arch_vmm_unmap(m, space, virt) ==
  IF space = NullPtr \/ m.spaces[space].pml4_phys = 0
  THEN [m |-> m, res |-> "ARCH_VMM_EINVAL"]
  ELSE IF virt.lo % PAGE_SIZE # 0 THEN [m |-> m, res |-> "ARCH_VMM_EINVAL"]
  ELSE UnmapLeaf(walk_get_pte(m, space, virt, FALSE, FALSE))

\* the walk of arch_vmm_resolve from the PML4 at pml4_phys: [res, phys]
ResolveIn(mem, pml4_phys, virt) ==
  LET e4 == ReadPte(mem, pml4_phys, IDX_PML4(virt))
      e3 == ReadPte(mem, PTE_ADDR_MASK(e4.addr), IDX_PDPT(virt))
      e2 == ReadPte(mem, PTE_ADDR_MASK(e3.addr), IDX_PD(virt))
      e1 == ReadPte(mem, PTE_ADDR_MASK(e2.addr), IDX_PT(virt))
  IN IF "P" \notin e4.bits THEN [res |-> "ARCH_VMM_ENOMAP", phys |-> 0]
     ELSE IF "P" \notin e3.bits THEN [res |-> "ARCH_VMM_ENOMAP", phys |-> 0]
     ELSE IF "PS" \in e3.bits
     THEN [res |-> "ARCH_VMM_OK", phys |-> ADDR_1G_MASK(e3.addr) + (virt.lo % 2^30)]
     ELSE IF "P" \notin e2.bits THEN [res |-> "ARCH_VMM_ENOMAP", phys |-> 0]
     ELSE IF "PS" \in e2.bits
     THEN [res |-> "ARCH_VMM_OK", phys |-> ADDR_2M_MASK(e2.addr) + (virt.lo % 2^21)]
     ELSE IF "P" \notin e1.bits THEN [res |-> "ARCH_VMM_ENOMAP", phys |-> 0]
     ELSE [res |-> "ARCH_VMM_OK", phys |-> PTE_ADDR_MASK(e1.addr) + (virt.lo % PAGE_SIZE)]

\* [res, phys]: the return value and *out_phys
arch_vmm_resolve(m, space, virt) ==
  IF space = NullPtr \/ m.spaces[space].pml4_phys = 0
  THEN [res |-> "ARCH_VMM_EINVAL", phys |-> 0]
  ELSE ResolveIn(m.mem, m.spaces[space].pml4_phys, virt)

\* kmalloc(size) and kfree(ptr) of heap.c for an object of slab size
KmallocSmall(m, size) ==
  IF ~heap_initialized THEN [h |-> m, obj |-> NullPtr] ELSE slab_alloc(m, size)
KfreeSmall(m, ptr) ==
  IF ~heap_initialized \/ ptr = NullPtr THEN m
  ELSE IF SLAB_PTR_VALID(ptr) /\ slab_find_cache_for_ptr(m.caches, ptr) # 0
  THEN slab_cache_free(m, slab_find_cache_for_ptr(m.caches, ptr), ptr)
  ELSE m

\* defect: no entry of the active PML4 is copied
UpperHalfOf_NothingCopied(mem, cur) == NoMemory

\* entries [256, 512) of the table at cur, as the row of a new table
UpperHalfOf(mem, cur) ==
  LET row == IF cur \in DOMAIN mem THEN mem[cur] ELSE NoMemory IN
  [i \in {j \in DOMAIN row : j >= 256} |-> row[i]]

\* arch_vmm_create_space once kmalloc returned sp and pmm_alloc_page returned a
SpaceOnPage(m, sp, a, cur_pml4_phys) ==
  IF a.ptr = NULL THEN [m |-> KfreeSmall([m EXCEPT !.pmm = a.pmm], sp), space |-> NullPtr]
  ELSE [m |-> [m EXCEPT !.pmm = a.pmm,
                        !.mem = Store(@, a.ptr, UpperHalfOf(@, cur_pml4_phys)),
                        !.spaces = Store(@, sp, [pml4_phys |-> a.ptr])],
        space |-> sp]

SpaceOnObject(k, cur_pml4_phys) ==
  IF k.obj = NullPtr THEN [m |-> k.h, space |-> NullPtr]
  ELSE SpaceOnPage(k.h, k.obj, PmmAllocPage(k.h.pmm), cur_pml4_phys)

\* [m, space]; cr3_now is what x86_read_cr3() returns
arch_vmm_create_space(m, cr3_now) ==
  SpaceOnObject(KmallocSmall(m, SizeofArchSpace), PTE_ADDR_MASK(cr3_now))

\* the frames arch_vmm_destroy_space passes to pmm_free_page, in order
PtFrames(mem, pd_phys) ==
  LET ix == PresentIdx(mem, pd_phys, 512)
      tables == SelectSeq([k \in 1..Len(ix) |-> ReadPte(mem, pd_phys, ix[k])],
                          LAMBDA e : "PS" \notin e.bits)
  IN [k \in 1..Len(tables) |-> PTE_ADDR_MASK(tables[k].addr)]
PdFrames(mem, pdpt_phys) ==
  LET ix == PresentIdx(mem, pdpt_phys, 512) IN
  Concat([k \in 1..Len(ix) |->
            PtFrames(mem, PTE_ADDR_MASK(ReadPte(mem, pdpt_phys, ix[k]).addr))
            \o <<PTE_ADDR_MASK(ReadPte(mem, pdpt_phys, ix[k]).addr)>>])
DestroyFrames(mem, pml4_phys) ==
  LET ix == PresentIdx(mem, pml4_phys, 256) IN
  Concat([k \in 1..Len(ix) |->
            PdFrames(mem, PTE_ADDR_MASK(ReadPte(mem, pml4_phys, ix[k]).addr))
            \o <<PTE_ADDR_MASK(ReadPte(mem, pml4_phys, ix[k]).addr)>>])
  \o <<pml4_phys>>

\* m after arch_vmm_destroy_space(space); the freed object leaves spaces
arch_vmm_destroy_space(m, space) ==
  IF space = NullPtr THEN m
  ELSE LET freed == IF m.spaces[space].pml4_phys = 0 THEN m.pmm
                    ELSE FreeFrames(m.pmm, DestroyFrames(m.mem, m.spaces[space].pml4_phys))
       IN KfreeSmall([m EXCEPT !.pmm = freed,
                               !.spaces = [h \in DOMAIN @ \ {space} |-> @[h]]], space)

(***************************************************************************)
(* The calls of arch/x86_64/memory/vmm.c                                   *)
(***************************************************************************)
ArchNow ==
  [pmm |-> PmmNow, caches |-> g_caches, slabs |-> slabs, stats |-> g_stats,
   mem |-> pt_mem, spaces |-> spaces]

SetArch(m) == SetHeap(m) /\ pt_mem' = m.mem /\ spaces' = m.spaces

\* the kernel calls the back end once the heap is up
ArchReturn(op, space, virt, phys, flags, res, out) ==
  /\ heap_initialized
  /\ vmm_last' = VmmCall(op, space, virt, phys, 1, flags, res, out)
  /\ UNCHANGED <<memmap, pmm_lock, heap_initialized, buddy, heap_live, heap_last,
                 obsVars, cpuVars, vmm_state, vmm_arch, vpc, vloc>>

\* g_kernel_space.pml4_phys = x86_read_cr3() & PTE_ADDR_MASK; return &g_kernel_space
arch_vmm_get_kernel_space_call ==
  /\ SetArch([ArchNow EXCEPT !.spaces[KernelSpacePtr] = [pml4_phys |-> PTE_ADDR_MASK(cr3)]])
  /\ UNCHANGED cr3
  /\ ArchReturn("arch_vmm_get_kernel_space", KernelSpacePtr, NullPtr, 0, {}, "-", 0)

arch_vmm_create_space_call ==
  /\ Cardinality(DOMAIN spaces) <= MaxSpaces
  /\ pmm_stats.alloc_count < MaxArchAllocs
  /\ ~Locked
  /\ SetArch(arch_vmm_create_space(ArchNow, cr3).m)
  /\ UNCHANGED cr3
  /\ ArchReturn("arch_vmm_create_space", arch_vmm_create_space(ArchNow, cr3).space,
                NullPtr, 0, {}, "-", 0)

\* the caller's obligations: space is not the kernel space, under no handle,
\* and it is not the space CR3 points into
arch_vmm_destroy_space_call(space) ==
  /\ space # KernelSpacePtr
  /\ spaces[space].pml4_phys # spaces[KernelSpacePtr].pml4_phys
  /\ spaces[space].pml4_phys # PTE_ADDR_MASK(cr3)
  /\ ~Locked
  /\ SetArch(arch_vmm_destroy_space(ArchNow, space))
  /\ UNCHANGED cr3
  /\ ArchReturn("arch_vmm_destroy_space", space, NullPtr, 0, {}, "-", 0)

arch_vmm_switch_space_call(space) ==
  /\ cr3' = IF space = NullPtr \/ spaces[space].pml4_phys = 0 THEN cr3
            ELSE spaces[space].pml4_phys
  /\ SetArch(ArchNow)
  /\ ArchReturn("arch_vmm_switch_space", space, NullPtr, 0, {}, "-", 0)

arch_vmm_map_call(space, virt, phys, flags) ==
  /\ pmm_stats.alloc_count < MaxArchAllocs
  /\ ~Locked
  /\ SetArch(arch_vmm_map(ArchNow, space, virt, phys, flags).m)
  /\ UNCHANGED cr3
  /\ ArchReturn("arch_vmm_map", space, virt, phys, flags,
                arch_vmm_map(ArchNow, space, virt, phys, flags).res, 0)

arch_vmm_unmap_call(space, virt) ==
  /\ SetArch(arch_vmm_unmap(ArchNow, space, virt).m)
  /\ UNCHANGED cr3
  /\ ArchReturn("arch_vmm_unmap", space, virt, 0, {},
                arch_vmm_unmap(ArchNow, space, virt).res, 0)

(***************************************************************************)
(* SpecVmm: the boot, then calls of the one-page back end from one CPU.    *)
(* arch_vmm_resolve writes nothing; the properties evaluate it where they   *)
(* need what it returns.                                                   *)
(***************************************************************************)
\* one page of reserved memory, then VmmPages usable pages
VmmMap == << Region(0, PAGE_SIZE, "RESERVED"),
             Region(PAGE_SIZE, PageBytes(VmmPages), "USABLE") >>
\* scenario 3's page, the page of the direct map that lies at physical 1 GiB,
\* and an address inside a page
ArchVirts == {Ptr(0, 2^30), Ptr(KERNEL_BASE_HI, GiantBase), Ptr(0, 2^30 + 1)}
ArchPhys == {2^25, 2^25 + 2^24}
ArchFlagSets == {{"WRITE", "USER"}, {"WC"}}

InitVmm ==
  /\ memmap = VmmMap
  /\ PmmStatic
  /\ pt_mem \in BootTableChoices
  /\ spaces = (KernelSpacePtr :> [pml4_phys |-> 0])

NextVmm ==
  \/ boot_pmm_init
  \/ heap_init
  \/ arch_vmm_get_kernel_space_call
  \/ arch_vmm_create_space_call
  \/ \E space \in DOMAIN spaces : arch_vmm_destroy_space_call(space)
  \/ \E space \in DOMAIN spaces : arch_vmm_switch_space_call(space)
  \/ \E space \in DOMAIN spaces, virt \in ArchVirts, phys \in ArchPhys, flags \in ArchFlagSets :
       arch_vmm_map_call(space, virt, phys, flags)
  \/ \E space \in DOMAIN spaces, virt \in ArchVirts : arch_vmm_unmap_call(space, virt)

SpecVmm == InitVmm /\ [][NextVmm]_vars

\* C11: VMM round trip.  Whenever arch_vmm_map(s, v, p, f) has returned
\* ARCH_VMM_OK, arch_vmm_resolve(s, v) yields p, arch_vmm_unmap(s, v) returns
\* ARCH_VMM_OK, and arch_vmm_resolve(s, v) after it reports ARCH_VMM_ENOMAP.
C11_MapResolveUnmapRoundTrip ==
  (vmm_last.op = "arch_vmm_map" /\ vmm_last.res = "ARCH_VMM_OK") =>
    /\ arch_vmm_resolve(ArchNow, vmm_last.space, vmm_last.virt)
         = [res |-> "ARCH_VMM_OK", phys |-> vmm_last.phys]
    /\ arch_vmm_unmap(ArchNow, vmm_last.space, vmm_last.virt).res = "ARCH_VMM_OK"
    /\ arch_vmm_resolve(arch_vmm_unmap(ArchNow, vmm_last.space, vmm_last.virt).m,
                        vmm_last.space, vmm_last.virt).res = "ARCH_VMM_ENOMAP"

\* addresses of the kernel's higher half: the start of the direct map, the
\* page at physical 1 GiB and a byte inside it
KernelVirts == {Ptr(KERNEL_BASE_HI, 0), Ptr(KERNEL_BASE_HI, GiantBase),
                Ptr(KERNEL_BASE_HI, GiantBase + 291)}

\* C16: when arch_vmm_create_space has returned a space, entries [0, 256) of
\* its PML4 are zero and entries [256, 512) equal those of the PML4 CR3 points
\* to, so every higher-half address resolves in the new space as it does
\* through the kernel's PML4.
C16_NewSpaceSharesUpperHalf ==
  (vmm_last.op = "arch_vmm_create_space" /\ vmm_last.space # NullPtr) =>
    /\ \A i \in 0..255 : ReadPte(pt_mem, spaces[vmm_last.space].pml4_phys, i) = ZeroPte
    /\ \A i \in 256..(VMM_X86_64_ENTRIES_PER_TABLE - 1) :
         ReadPte(pt_mem, spaces[vmm_last.space].pml4_phys, i)
           = ReadPte(pt_mem, PTE_ADDR_MASK(cr3), i)
    /\ \A virt \in KernelVirts :
         ResolveIn(pt_mem, spaces[vmm_last.space].pml4_phys, virt)
           = ResolveIn(pt_mem, BootPml4, virt)

\* a space was created while another space than the kernel's was active and
\* higher-half addresses resolve
C16_Witness ==
  /\ vmm_last.op = "arch_vmm_create_space" /\ vmm_last.space # NullPtr
  /\ PTE_ADDR_MASK(cr3) # BootPml4
  /\ ReadPte(pt_mem, spaces[vmm_last.space].pml4_phys, HhdmIndex) # ZeroPte
  /\ \A virt \in KernelVirts :
       ResolveIn(pt_mem, spaces[vmm_last.space].pml4_phys, virt).res = "ARCH_VMM_OK"

(***************************************************************************)
(* x86_64 back end with the range interface,                               *)
(* arch/x86_64/memory/vmm_arch.c.  m holds what a call works on: pmm, mem  *)
(* (the page-table memory), spaces (the struct vmm_space objects), arch    *)
(* (the statics of the file) and cr3.  A space allocated by                *)
(* vmm_x86_64_create_space is named by the address of its page.            *)
(***************************************************************************)
\* arch_memory_region_valid(base, PAGE_SIZE) for a frame below 2^31: the frame
\* does not overlap the VGA/BIOS range [0xA0000, 0xFFFFF]
FrameValid(base) == ~(base <= 1048575 /\ base + PAGE_SIZE - 1 >= 655360)

\* alloc_page_table once the PMM returned a: [m, ok, phys]
TableOnPage(m, a) ==
  IF a.ptr = NULL THEN [m |-> [m EXCEPT !.pmm = a.pmm], ok |-> FALSE, phys |-> 0]
  ELSE IF ~FrameValid(a.ptr)
  THEN [m |-> [m EXCEPT !.pmm = PmmFreePage(a.pmm, a.ptr)], ok |-> FALSE, phys |-> 0]
  ELSE [m |-> [m EXCEPT !.pmm = a.pmm, !.mem = ZeroTable(@, a.ptr)],
        ok |-> TRUE, phys |-> a.ptr]

TableAfterLow(m, a) ==
  IF a.ptr # NULL THEN TableOnPage(m, a) ELSE TableOnPage(m, PmmAllocPage(a.pmm))

alloc_page_table(m) ==
  IF ~m.arch.direct_map_ready THEN TableAfterLow(m, PmmAllocPageBelow4G(m.pmm))
  ELSE TableOnPage(m, PmmAllocPage(m.pmm))

\* free_page_table of the table at phys; without the direct map the table at
\* physical 0 is the NULL pointer
free_page_table(m, phys) ==
  IF phys = 0 /\ ~m.arch.direct_map_ready THEN m
  ELSE [m EXCEPT !.pmm = PmmFreePage(@, phys)]

RECURSIVE TreeFrames(_, _, _)
\* the frames free_page_tables_recursive(table, level) passes to
\* free_page_table, in order
TreeFrames(mem, table, level) ==
  IF level <= 0 THEN << >>
  ELSE (IF level > 1
        THEN LET ix == PresentIdx(mem, table, VMM_X86_64_ENTRIES_PER_TABLE) IN
             Concat([k \in 1..Len(ix) |->
                       TreeFrames(mem, PTE_ADDR_MASK(ReadPte(mem, table, ix[k]).addr),
                                  level - 1)])
        ELSE << >>)
       \o <<table>>

\* [m, ok, phys, new]: one level of page_walk, the table entry tbl[idx] leads to
NoTable(m) == [m |-> m, ok |-> FALSE, phys |-> 0, new |-> FALSE]

\* the level once alloc_page_table returned t
WalkStepOn(tbl, idx, user, t) ==
  IF ~t.ok THEN NoTable(t.m)
  ELSE [m |-> [t.m EXCEPT !.mem = WritePte(@, tbl, idx,
                                           Pte(PTE_ADDR_MASK(t.phys),
                                               IF user THEN {"P", "RW", "US"}
                                               ELSE {"P", "RW"}))],
        ok |-> TRUE, phys |-> t.phys, new |-> TRUE]

WalkStep(m, tbl, idx, create_missing, user) ==
  IF "P" \in ReadPte(m.mem, tbl, idx).bits
  THEN IF FrameValid(PTE_ADDR_MASK(ReadPte(m.mem, tbl, idx).addr))
       THEN [m |-> m, ok |-> TRUE, phys |-> PTE_ADDR_MASK(ReadPte(m.mem, tbl, idx).addr),
             new |-> FALSE]
       ELSE NoTable(m)
  ELSE IF ~create_missing THEN NoTable(m)
  ELSE WalkStepOn(tbl, idx, user, alloc_page_table(m))

\* if (new_...) { free_page_table(...); entry->raw = 0; }
UndoStep(m, r, tbl, idx) ==
  IF r.new THEN [free_page_table(m, r.phys) EXCEPT !.mem = WritePte(@, tbl, idx, ZeroPte)]
  ELSE m

\* [m, ok, pte]
NoWalk(m) == [m |-> m, ok |-> FALSE, pte |-> NullPte]

WalkAtPt(r4, r3, r2, pml4, virt) ==
  IF r2.ok THEN [m |-> r2.m, ok |-> TRUE, pte |-> PtePtr(r2.phys, IDX_PT(virt))]
  ELSE NoWalk(UndoStep(UndoStep(r2.m, r3, r4.phys, IDX_PDPT(virt)),
                       r4, pml4, IDX_PML4(virt)))

WalkAtPd(r4, r3, pml4, virt, create_missing, user) ==
  IF r3.ok
  THEN WalkAtPt(r4, r3, WalkStep(r3.m, r3.phys, IDX_PD(virt), create_missing, user),
                pml4, virt)
  ELSE NoWalk(UndoStep(r3.m, r4, pml4, IDX_PML4(virt)))

WalkAtPdpt(r4, pml4, virt, create_missing, user) ==
  IF r4.ok
  THEN WalkAtPd(r4, WalkStep(r4.m, r4.phys, IDX_PDPT(virt), create_missing, user),
                pml4, virt, create_missing, user)
  ELSE NoWalk(r4.m)

page_walk(m, space, virt, create_missing) ==
  IF space = NullPtr \/ m.spaces[space].phys_pml4 = 0 THEN NoWalk(m)
  ELSE WalkAtPdpt(WalkStep(m, m.spaces[space].phys_pml4, IDX_PML4(virt), create_missing,
                           ~m.spaces[space].is_kernel_space),
                  m.spaces[space].phys_pml4, virt, create_missing,
                  ~m.spaces[space].is_kernel_space)

\* the generic flags are READ, WRITE, EXEC, USER, GLOBAL, NO_CACHE
vmm_x86_64_convert_flags(generic_flags) ==
  {"P"} \cup (IF "WRITE" \in generic_flags THEN {"RW"} ELSE {})
        \cup (IF "USER" \in generic_flags THEN {"US"} ELSE {})
        \cup (IF "GLOBAL" \in generic_flags THEN {"G"} ELSE {})
        \cup (IF "NO_CACHE" \in generic_flags THEN {"PCD"} ELSE {})
        \cup (IF "EXEC" \notin generic_flags THEN {"NX"} ELSE {})

\* one turn of the rollback loop, rb_pte being what the walk w returned.
\* mapped_pages is a u64; here it goes below 0 where the code wraps
RollbackPage(w, space) ==
  IF w.ok /\ "P" \in ReadPte(w.m.mem, w.pte.table, w.pte.idx).bits
  THEN [w.m EXCEPT !.mem = WritePte(@, w.pte.table, w.pte.idx, ZeroPte),
                   !.spaces[space].mapped_pages = @ - 1,
                   !.arch.pages_unmapped = @ + 1,
                   !.arch.pages_mapped = IF @ > 0 THEN @ - 1 ELSE @]
  ELSE w.m

RECURSIVE RollbackLoop(_, _, _, _, _)
\* for (j = 0; j < i; j++) of vmm_x86_64_map_pages
RollbackLoop(m, space, virt, i, j) ==
  IF j >= i THEN m
  ELSE RollbackLoop(RollbackPage(page_walk(m, space, PtrAdd(virt, j * PAGE_SIZE), FALSE),
                                 space),
                    space, virt, i, j + 1)

RECURSIVE MapLoop(_, _, _, _, _, _, _)
\* one turn of the mapping loop, pte being what the walk w returned: [m, ok]
MapPage(w, space, virt, phys, page_count, x86_flags, i) ==
  IF ~w.ok THEN [m |-> RollbackLoop(w.m, space, virt, i, 0), ok |-> FALSE]
  ELSE MapLoop([w.m EXCEPT !.mem = WritePte(@, w.pte.table, w.pte.idx,
                                            Pte(PTE_ADDR_MASK(phys + i * PAGE_SIZE),
                                                x86_flags)),
                           !.spaces[space].mapped_pages = @ + 1,
                           !.arch.pages_mapped = @ + 1],
               space, virt, phys, page_count, x86_flags, i + 1)

\* for (i = 0; i < page_count; i++) of vmm_x86_64_map_pages
MapLoop(m, space, virt, phys, page_count, x86_flags, i) ==
  IF i >= page_count THEN [m |-> m, ok |-> TRUE]
  ELSE MapPage(page_walk(m, space, PtrAdd(virt, i * PAGE_SIZE), TRUE),
               space, virt, phys, page_count, x86_flags, i)

\* [m, ok]
vmm_x86_64_map_pages(m, space, virt, phys, page_count, flags) ==
  IF space = NullPtr \/ ~m.arch.vmm_x86_64_initialized THEN [m |-> m, ok |-> FALSE]
  ELSE IF virt.lo % PAGE_SIZE # 0 \/ phys % PAGE_SIZE # 0 THEN [m |-> m, ok |-> FALSE]
  ELSE IF ~VMM_X86_64_IS_CANONICAL(virt) THEN [m |-> m, ok |-> FALSE]
  ELSE MapLoop(m, space, virt, phys, page_count, vmm_x86_64_convert_flags(flags), 0)

\* one turn of the unmapping loop, pte being what the walk w returned
UnmapPage(w, space) ==
  IF ~w.ok \/ "P" \notin ReadPte(w.m.mem, w.pte.table, w.pte.idx).bits THEN w.m
  ELSE [w.m EXCEPT !.mem = WritePte(@, w.pte.table, w.pte.idx, ZeroPte),
                   !.spaces[space].mapped_pages = @ - 1,
                   !.arch.pages_unmapped = @ + 1]

RECURSIVE UnmapLoop(_, _, _, _, _)
UnmapLoop(m, space, virt, page_count, i) ==
  IF i >= page_count THEN m
  ELSE UnmapLoop(UnmapPage(page_walk(m, space, PtrAdd(virt, i * PAGE_SIZE), FALSE), space),
                 space, virt, page_count, i + 1)

\* m after the call, which returns nothing
vmm_x86_64_unmap_pages(m, space, virt, page_count) ==
  IF space = NullPtr \/ ~m.arch.vmm_x86_64_initialized THEN m
  ELSE IF virt.lo % PAGE_SIZE # 0 THEN m
  ELSE UnmapLoop(m, space, virt, page_count, 0)

\* vmm_x86_64_resolve after the walk returned w: [found, phys]
ResolveLeaf(w, virt) ==
  IF ~w.ok \/ "P" \notin ReadPte(w.m.mem, w.pte.table, w.pte.idx).bits
  THEN [found |-> FALSE, phys |-> 0]
  ELSE [found |-> TRUE,
        phys |-> PTE_ADDR_MASK(ReadPte(w.m.mem, w.pte.table, w.pte.idx).addr)
                 + (virt.lo % PAGE_SIZE)]

vmm_x86_64_resolve(m, space, virt) ==
  IF space = NullPtr \/ ~m.arch.vmm_x86_64_initialized THEN [found |-> FALSE, phys |-> 0]
  ELSE ResolveLeaf(page_walk(m, space, virt, FALSE), virt)

vmm_x86_64_switch_space(m, space) ==
  IF space = NullPtr \/ m.spaces[space].phys_pml4 = 0 THEN m
  ELSE IF m.cr3 = m.spaces[space].phys_pml4 THEN m
  ELSE [m EXCEPT !.spaces = [h \in DOMAIN @ |->
                               IF h = space THEN [@[h] EXCEPT !.is_active = TRUE]
                               ELSE IF h = m.arch.active_space
                               THEN [@[h] EXCEPT !.is_active = FALSE]
                               ELSE @[h]],
                 !.arch.active_space = space,
                 !.cr3 = m.spaces[space].phys_pml4]

\* vmm_x86_64_create_space once alloc_page_table returned t for the PML4 of the
\* space whose struct lies in the page at sp
SpaceOnTable(t, sp) ==
  IF ~t.ok THEN [m |-> [t.m EXCEPT !.pmm = PmmFreePage(@, sp)], space |-> NullPtr]
  ELSE [m |-> [t.m EXCEPT
                 !.spaces = Store(@, Ptr(0, sp),
                                  [phys_pml4 |-> t.phys, is_kernel_space |-> FALSE,
                                   mapped_pages |-> 0, space_id |-> t.m.arch.next_space_id,
                                   is_active |-> FALSE]),
                 !.arch.next_space_id = @ + 1,
                 !.arch.spaces_created = @ + 1,
                 !.mem = Store(@, t.phys,
                               UpperHalfOf(@, t.m.spaces[KernelSpacePtr].phys_pml4))],
        space |-> Ptr(0, sp)]

\* the same once pmm_alloc_page returned a for the struct
SpaceOnStruct(m, a) ==
  IF a.ptr = NULL THEN [m |-> [m EXCEPT !.pmm = a.pmm], space |-> NullPtr]
  ELSE SpaceOnTable(alloc_page_table([m EXCEPT !.pmm = a.pmm]), a.ptr)

\* [m, space]
vmm_x86_64_create_space(m) ==
  IF ~m.arch.vmm_x86_64_initialized THEN [m |-> m, space |-> NullPtr]
  ELSE SpaceOnStruct(m, PmmAllocPage(m.pmm))

\* vmm_x86_64_destroy_space from free_page_tables_recursive on, s being the
\* state after the forced switch; the freed object leaves spaces
DestroyTables(s, space) ==
  [s EXCEPT !.pmm = PmmFreePage(
                      IF s.spaces[space].phys_pml4 # 0
                      THEN FreeFrames(@, TreeFrames(s.mem, s.spaces[space].phys_pml4, 4))
                      ELSE @,
                      space.lo),
            !.spaces = [h \in DOMAIN @ \ {space} |-> @[h]],
            !.arch.spaces_destroyed = @ + 1]

vmm_x86_64_destroy_space(m, space) ==
  IF space = NullPtr \/ space = KernelSpacePtr THEN m
  ELSE IF m.spaces[space].is_active
  THEN DestroyTables(vmm_x86_64_switch_space(m, KernelSpacePtr), space)
  ELSE DestroyTables(m, space)

RECURSIVE DirectMapLoop(_, _, _)
\* the loop of vmm_x86_64_init_paging over the memory map: [m, ok], ok FALSE
\* where the code panics
DirectMapRegion(r, regions, i) ==
  IF ~r.ok THEN r ELSE DirectMapLoop(r.m, regions, i + 1)

DirectMapLoop(m, regions, i) ==
  IF i > Len(regions) THEN [m |-> m, ok |-> TRUE]
  ELSE IF ~IsReclaimable(regions[i].type) THEN DirectMapLoop(m, regions, i + 1)
  ELSE DirectMapRegion(
         vmm_x86_64_map_pages(m, KernelSpacePtr,
                              Ptr(DIRECT_MAP_HI, PAGE_ALIGN_DOWN(regions[i].base)),
                              PAGE_ALIGN_DOWN(regions[i].base),
                              (PAGE_ALIGN_UP(regions[i].base + regions[i].length)
                                 - PAGE_ALIGN_DOWN(regions[i].base)) \div PAGE_SIZE,
                              {"READ", "WRITE", "GLOBAL"}),
         regions, i)

\* vmm_x86_64_init_paging once alloc_page_table returned t for the kernel PML4
PagingOnTable(t, regions) ==
  IF ~t.ok THEN [m |-> t.m, ok |-> FALSE]
  ELSE DirectMapLoop(
         [t.m EXCEPT !.spaces[KernelSpacePtr] =
                       [phys_pml4 |-> t.phys, is_kernel_space |-> TRUE,
                        mapped_pages |-> 0, space_id |-> 0, is_active |-> TRUE],
                     !.arch.active_space = KernelSpacePtr,
                     !.mem = Store(@, t.phys,
                                   IF t.m.cr3 \in DOMAIN @ THEN @[t.m.cr3] ELSE NoMemory),
                     !.cr3 = t.phys,
                     !.arch.vmm_x86_64_initialized = TRUE,
                     !.arch.spaces_created = 1],
         regions, 1)

\* [m, ok]: ok FALSE where the code panics
vmm_x86_64_init_paging(m, regions) ==
  IF ~m.pmm.state.initialized THEN [m |-> m, ok |-> FALSE]
  ELSE PagingOnTable(alloc_page_table(m), regions)

(***************************************************************************)
(* The calls of mm/vmm.c, bound to the range back end through the          *)
(* arch_vmm_* wrappers of vmm_arch.c.  vmm_lock is held for the checks and *)
(* the counters only; one CPU calls.                                       *)
(***************************************************************************)
X64Now == [pmm |-> PmmNow, mem |-> pt_mem, spaces |-> spaces, arch |-> vmm_arch, cr3 |-> cr3]

SetX64(m) ==
  /\ bitmap' = m.pmm.bitmap
  /\ pmm_state' = m.pmm.state
  /\ pmm_stats' = m.pmm.stats
  /\ pt_mem' = m.mem
  /\ spaces' = m.spaces
  /\ vmm_arch' = m.arch
  /\ cr3' = m.cr3

VmmReturn(op, space, virt, phys, page_count, flags, res, out) ==
  /\ vmm_last' = VmmCall(op, space, virt, phys, page_count, flags, res, out)
  /\ UNCHANGED <<memmap, pmm_lock, heapVars, obsVars, cpuVars, vpc, vloc>>

\* if (!space) space = vmm_state.kernel_space
CallSpace(space) == IF space = NullPtr THEN vmm_state.kernel_space ELSE space

validate_mapping_params_locked(space, virt, phys, page_count) ==
  /\ space # NullPtr
  /\ vmm_state.initialized
  /\ virt.lo % PAGE_SIZE = 0
  /\ phys % PAGE_SIZE = 0
  /\ page_count # 0

validate_space_operation_locked(space) == vmm_state.initialized /\ space # NullPtr

\* a second vmm_init is ignored; without the PMM, and where the back end cannot
\* build the kernel tables, the kernel panics
vmm_init ==
  /\ ~vmm_state.initialized
  /\ pmm_state.initialized /\ ~Locked
  /\ vmm_x86_64_init_paging(X64Now, memmap).ok
  /\ SetX64(vmm_x86_64_init_paging(X64Now, memmap).m)
  /\ vmm_state' = [initialized |-> TRUE, kernel_space |-> KernelSpacePtr,
                   total_spaces_created |-> 1, total_mappings |-> 0,
                   total_unmappings |-> 0]
  /\ VmmReturn("vmm_init", NullPtr, NullPtr, 0, 0, {}, "-", 0)

vmm_create_space ==
  /\ vmm_state.total_spaces_created < MaxSpaces
  /\ pmm_stats.alloc_count < MaxRangeAllocs
  /\ ~Locked
  /\ IF ~vmm_state.initialized
     THEN /\ SetX64(X64Now) /\ UNCHANGED vmm_state
          /\ VmmReturn("vmm_create_space", NullPtr, NullPtr, 0, 0, {}, "-", 0)
     ELSE /\ SetX64(vmm_x86_64_create_space(X64Now).m)
          /\ vmm_state' = IF vmm_x86_64_create_space(X64Now).space # NullPtr
                          THEN [vmm_state EXCEPT !.total_spaces_created = @ + 1]
                          ELSE vmm_state
          /\ VmmReturn("vmm_create_space", vmm_x86_64_create_space(X64Now).space,
                       NullPtr, 0, 0, {}, "-", 0)

vmm_destroy_space(space) ==
  /\ ~Locked
  /\ IF ~validate_space_operation_locked(space) \/ space = vmm_state.kernel_space
     THEN SetX64(X64Now)
     ELSE SetX64(vmm_x86_64_destroy_space(X64Now, space))
  /\ UNCHANGED vmm_state
  /\ VmmReturn("vmm_destroy_space", space, NullPtr, 0, 0, {}, "-", 0)

vmm_switch_space(space) ==
  /\ IF ~validate_space_operation_locked(space) THEN SetX64(X64Now)
     ELSE SetX64(vmm_x86_64_switch_space(X64Now, space))
  /\ UNCHANGED vmm_state
  /\ VmmReturn("vmm_switch_space", space, NullPtr, 0, 0, {}, "-", 0)

\* arch_vmm_map_pages with the flags vmm_map passes on
MapCall(space, virt, phys, page_count, flags) ==
  vmm_x86_64_map_pages(X64Now, CallSpace(space), virt, phys, page_count,
                       IF flags = {} THEN {"READ"} ELSE flags)

vmm_map(space, virt, phys, page_count, flags) ==
  /\ vmm_state.total_mappings < MaxMappings
  /\ pmm_stats.alloc_count < MaxRangeAllocs
  /\ vmm_arch.pages_unmapped < MaxUnmappings
  /\ ~Locked
  /\ IF ~validate_mapping_params_locked(CallSpace(space), virt, phys, page_count)
     THEN /\ SetX64(X64Now) /\ UNCHANGED vmm_state
          /\ VmmReturn("vmm_map", space, virt, phys, page_count, flags, "false", 0)
     ELSE /\ SetX64(MapCall(space, virt, phys, page_count, flags).m)
          /\ vmm_state' = IF MapCall(space, virt, phys, page_count, flags).ok
                          THEN [vmm_state EXCEPT !.total_mappings = @ + page_count]
                          ELSE vmm_state
          /\ VmmReturn("vmm_map", space, virt, phys, page_count, flags,
                       Bool(MapCall(space, virt, phys, page_count, flags).ok), 0)

\* vmm_unmap returns nothing
vmm_unmap(space, virt, page_count) ==
  /\ vmm_state.total_unmappings < MaxUnmappings
  /\ vmm_arch.pages_unmapped < MaxUnmappings
  /\ IF \/ ~validate_space_operation_locked(CallSpace(space))
        \/ virt.lo % PAGE_SIZE # 0 \/ page_count = 0
     THEN SetX64(X64Now) /\ UNCHANGED vmm_state
     ELSE /\ SetX64(vmm_x86_64_unmap_pages(X64Now, CallSpace(space), virt, page_count))
          /\ vmm_state' = [vmm_state EXCEPT !.total_unmappings = @ + page_count]
  /\ VmmReturn("vmm_unmap", space, virt, 0, page_count, {}, "-", 0)

\* [found, phys]: what vmm_resolve returns and stores through out_phys_addr
vmm_resolve(space, virt) ==
  IF ~validate_space_operation_locked(CallSpace(space)) THEN [found |-> FALSE, phys |-> 0]
  ELSE vmm_x86_64_resolve(X64Now, CallSpace(space), virt)

(***************************************************************************)
(* SpecVmmArch: the boot on a small memory, then calls of mm/vmm.c.        *)
(* vmm_resolve writes nothing; the properties evaluate it.                 *)
(***************************************************************************)
\* a reserved page, then as many usable pages as the PMM bitmap, the kernel
\* tables and one path of three tables take
RangeMap == << Region(0, PAGE_SIZE, "RESERVED"),
               Region(PAGE_SIZE, PageBytes(RangePages), "USABLE") >>
\* the last page of a page table, so that a range of two pages needs a second
\* table, and an address inside a page
RangeVirts == {Ptr(0, 2^30 + 511 * PAGE_SIZE), Ptr(0, 2^30 + 1)}
RangePhys == {2^25, 2^25 + 2^24}
RangeCounts == {1, 2}
RangeFlagSets == {{}}

InitVmmArch == memmap = RangeMap /\ PmmStatic /\ VmmUnused

NextVmmArch ==
  \/ boot_pmm_init
  \/ vmm_init
  \/ vmm_create_space
  \/ \E space \in DOMAIN spaces : vmm_destroy_space(space)
  \/ \E space \in DOMAIN spaces : vmm_switch_space(space)
  \/ \E space \in DOMAIN spaces \cup {NullPtr}, virt \in RangeVirts, phys \in RangePhys,
        page_count \in RangeCounts, flags \in RangeFlagSets :
       vmm_map(space, virt, phys, page_count, flags)
  \/ \E space \in DOMAIN spaces \cup {NullPtr}, virt \in RangeVirts,
        page_count \in RangeCounts :
       vmm_unmap(space, virt, page_count)

SpecVmmArch == InitVmmArch /\ [][NextVmmArch]_vars

\* C12: VMM double map.  A vmm_map whose first page is already mapped returns
\* failure (Busy), and the page resolves afterwards as it did before.
C12_DoubleMapRejected ==
  [][(/\ vmm_last'.op = "vmm_map"
      /\ validate_mapping_params_locked(CallSpace(vmm_last'.space), vmm_last'.virt,
                                        vmm_last'.phys, vmm_last'.count)
      /\ vmm_x86_64_resolve(X64Now, CallSpace(vmm_last'.space), vmm_last'.virt).found)
     => (/\ vmm_last'.res = "false"
         /\ vmm_x86_64_resolve(X64Now', CallSpace(vmm_last'.space), vmm_last'.virt)
              = vmm_x86_64_resolve(X64Now, CallSpace(vmm_last'.space), vmm_last'.virt))]_vars

\* C13: a range map is all or nothing.  After a vmm_map that failed, every
\* page of the range resolves as it did before the call.
C13_FailedRangeMapChangesNothing ==
  [][(vmm_last'.op = "vmm_map" /\ vmm_last'.res = "false")
     => \A k \in 0..(vmm_last'.count - 1) :
          vmm_x86_64_resolve(X64Now', CallSpace(vmm_last'.space),
                             PtrAdd(vmm_last'.virt, k * PAGE_SIZE))
            = vmm_x86_64_resolve(X64Now, CallSpace(vmm_last'.space),
                                 PtrAdd(vmm_last'.virt, k * PAGE_SIZE))]_vars

\* the frames the present entries [lo, hi] of the tables in a set lead to:
\* tables where the entry has no PS bit
ChildFrames(mem, tables, lo, hi) ==
  UNION {{PTE_ADDR_MASK(mem[t][i].addr) :
            i \in {j \in DOMAIN mem[t] : lo <= j /\ j <= hi /\ "P" \in mem[t][j].bits
                                         /\ "PS" \notin mem[t][j].bits}} :
         t \in tables \cap DOMAIN mem}
\* the PDPT, PD and PT frames reachable from entries [lo, hi] of a PML4
TableFrames(mem, pml4, lo, hi) ==
  ChildFrames(mem, {pml4}, lo, hi)
  \cup ChildFrames(mem, ChildFrames(mem, {pml4}, lo, hi), 0, 511)
  \cup ChildFrames(mem, ChildFrames(mem, ChildFrames(mem, {pml4}, lo, hi), 0, 511), 0, 511)
\* the frames the leaf entries below entries [lo, hi] of a PML4 map
DataFrames(mem, pml4, lo, hi) ==
  ChildFrames(mem, ChildFrames(mem, ChildFrames(mem, ChildFrames(mem, {pml4}, lo, hi),
                                                0, 511), 0, 511), 0, 511)
\* the frames of the PMM that a step returns to it
FramesFreed ==
  {PAGE_TO_ADDR(i) : i \in {j \in 0..(pmm_state.total_pages - 1) :
      /\ pmm_is_page_used_internal(bitmap, pmm_state.total_pages, j)
      /\ ~pmm_is_page_used_internal(bitmap', pmm_state.total_pages, j)}}

\* C15: destroying a space returns to the PMM the page-table frames reachable
\* from PML4[0, 256) and the PML4, and neither a data frame of a leaf entry
\* nor a table reachable through PML4[256, 512).
C15_DestroyFreesUserTablesOnly ==
  [][(vmm_last'.op = "vmm_destroy_space" /\ vmm_last'.space \in DOMAIN spaces
      /\ vmm_last'.space \notin DOMAIN spaces')
     => LET pml4 == spaces[vmm_last'.space].phys_pml4 IN
        /\ TableFrames(pt_mem, pml4, 0, 255) \cup {pml4} \subseteq FramesFreed
        /\ FramesFreed \cap TableFrames(pt_mem, pml4, 256, 511) = {}
        /\ FramesFreed \cap DataFrames(pt_mem, pml4, 0, 255) = {}]_vars

\* C17: unmapping one page that is not mapped reports NoMap to the caller,
\* allocates no page table and changes no page-table entry.
C17_UnmapAbsentReportsNoMap ==
  [][(/\ vmm_last'.op = "vmm_unmap" /\ vmm_last'.count = 1
      /\ validate_space_operation_locked(CallSpace(vmm_last'.space))
      /\ vmm_last'.virt.lo % PAGE_SIZE = 0
      /\ ~vmm_x86_64_resolve(X64Now, CallSpace(vmm_last'.space), vmm_last'.virt).found)
     => (/\ vmm_last'.res = "NoMap"
         /\ pt_mem' = pt_mem
         /\ pmm_stats'.alloc_count = pmm_stats.alloc_count)]_vars

(***************************************************************************)
(* arch_vmm_map of arch/x86_64/memory/vmm.c step by step, for CPUs that    *)
(* call it at the same time.  The file takes no lock: a step is one read   *)
(* or one write of the shared tables.  pmm_alloc_page runs under pmm_lock  *)
(* and the page it returns is private until the entry is written, so       *)
(* allocation, memset and the write of the entry make one step.            *)
(***************************************************************************)
\* IDX_PML4 .. IDX_PT by the level of the table: 4 for the PML4, 1 for the PT
LevelIdx(level, virt) ==
  CASE level = 4 -> IDX_PML4(virt)
    [] level = 3 -> IDX_PDPT(virt)
    [] level = 2 -> IDX_PD(virt)
    [] OTHER -> IDX_PT(virt)

\* the entry the CPU's walk stands at
EntryAt(t) == ReadPte(pt_mem, vloc[t].table, LevelIdx(vloc[t].level, vloc[t].virt))

CpuFrame ==
  UNCHANGED <<memmap, pmm_lock, heap_initialized, buddy, heap_live, heap_last,
              obsVars, cpuVars, vmm_state, vmm_arch, cr3>>

\* the walk goes down to the table at phys; below the PD lies the leaf
Descend(t, phys) ==
  /\ vloc' = [vloc EXCEPT ![t].table = phys, ![t].level = @ - 1]
  /\ vpc' = [vpc EXCEPT ![t] = IF vloc[t].level = 2 THEN "leaf" ELSE "walk"]

Leave(t, res) ==
  /\ vloc' = [vloc EXCEPT ![t].res = res]
  /\ vpc' = [vpc EXCEPT ![t] = "ret"]

\* the argument checks of arch_vmm_map and map_flags_to_pte
EnterVerdict(space, virt, phys, flags) ==
  IF space = NullPtr \/ spaces[space].pml4_phys = 0 THEN "ARCH_VMM_EINVAL"
  ELSE IF virt.lo % PAGE_SIZE # 0 \/ phys % PAGE_SIZE # 0 THEN "ARCH_VMM_EINVAL"
  ELSE IF map_flags_to_pte(flags).rc # 0 THEN "ARCH_VMM_EUNSUPPORTED"
  ELSE "-"

cpu_map_enter(t, space, virt, phys, flags) ==
  /\ vpc[t] = "idle"
  /\ heap_initialized
  /\ pmm_stats.alloc_count < MaxArchAllocs
  /\ vloc' = [vloc EXCEPT ![t] =
                [space |-> space, virt |-> virt, phys |-> phys, flags |-> flags,
                 bits |-> map_flags_to_pte(flags).bits, need_user |-> "USER" \in flags,
                 table |-> IF space = NullPtr THEN 0 ELSE spaces[space].pml4_phys,
                 level |-> 4, e |-> ZeroPte,
                 res |-> EnterVerdict(space, virt, phys, flags)]]
  /\ vpc' = [vpc EXCEPT ![t] = IF EnterVerdict(space, virt, phys, flags) = "-"
                               THEN "walk" ELSE "ret"]
  /\ SetArch(ArchNow)
  /\ UNCHANGED vmm_last
  /\ CpuFrame

\* walk_get_pte reads tbl[idx]: a non-zero address is followed; for a zero one
\* ensure_subtable reads the entry again and, finding it absent, goes to allocate
cpu_walk_entry(t) ==
  /\ vpc[t] = "walk"
  /\ IF vloc[t].level = 2 /\ "PS" \in EntryAt(t).bits THEN Leave(t, "ARCH_VMM_ENOMEM")
     ELSE IF EntryAt(t).addr # 0 THEN Descend(t, EntryAt(t).addr)
     ELSE IF "P" \in EntryAt(t).bits THEN Leave(t, "ARCH_VMM_ENOMEM")
     ELSE /\ vloc' = [vloc EXCEPT ![t].e = EntryAt(t)]
          /\ vpc' = [vpc EXCEPT ![t] = "alloc"]
  /\ SetArch(ArchNow)
  /\ UNCHANGED vmm_last
  /\ CpuFrame

\* ensure_subtable from pmm_alloc_page on: tbl[idx] is written without a
\* second look at what it holds by now
cpu_subtable(t) ==
  /\ vpc[t] = "alloc"
  /\ ~Locked
  /\ SetArch(SubtableOnPage(ArchNow, vloc[t].table, LevelIdx(vloc[t].level, vloc[t].virt),
                            vloc[t].need_user, PmmAllocPage(PmmNow)).m)
  /\ IF PmmAllocPage(PmmNow).ptr = NULL THEN Leave(t, "ARCH_VMM_ENOMEM")
     ELSE Descend(t, PmmAllocPage(PmmNow).ptr)
  /\ UNCHANGED vmm_last
  /\ CpuFrame

\* if (*pte & PTE_P) return ARCH_VMM_EBUSY
cpu_leaf_test(t) ==
  /\ vpc[t] = "leaf"
  /\ IF "P" \in EntryAt(t).bits THEN Leave(t, "ARCH_VMM_EBUSY")
     ELSE /\ vloc' = [vloc EXCEPT ![t].e = EntryAt(t)]
          /\ vpc' = [vpc EXCEPT ![t] = "store"]
  /\ SetArch(ArchNow)
  /\ UNCHANGED vmm_last
  /\ CpuFrame

\* *pte = (phys & PTE_ADDR_MASK) | pte_bits
cpu_leaf_store(t) ==
  /\ vpc[t] = "store"
  /\ SetArch([ArchNow EXCEPT !.mem = WritePte(@, vloc[t].table,
                                              LevelIdx(vloc[t].level, vloc[t].virt),
                                              Pte(PTE_ADDR_MASK(vloc[t].phys), vloc[t].bits))])
  /\ Leave(t, "ARCH_VMM_OK")
  /\ UNCHANGED vmm_last
  /\ CpuFrame

\* the caller has the result
cpu_map_return(t) ==
  /\ vpc[t] = "ret"
  /\ vmm_last' = VmmCall("arch_vmm_map", vloc[t].space, vloc[t].virt, vloc[t].phys, 1,
                         vloc[t].flags, vloc[t].res, 0)
  /\ vpc' = [vpc EXCEPT ![t] = "idle"]
  /\ vloc' = [vloc EXCEPT ![t] = NoVmmLocals]
  /\ SetArch(ArchNow)
  /\ CpuFrame

(***************************************************************************)
(* SpecVmmCpus: the boot, then two CPUs mapping pages of the kernel space. *)
(***************************************************************************)
\* two pages of one page table
CpuVirts == {Ptr(0, 2^30), Ptr(0, 2^30 + PAGE_SIZE)}
CpuFlagSets == {{"WRITE"}}

InitVmmCpus ==
  /\ memmap = VmmMap
  /\ PmmStatic
  /\ pt_mem = LimineTables("2M", NoMemory)
  /\ spaces = (KernelSpacePtr :> [pml4_phys |-> 0])

NextVmmCpus ==
  \/ boot_pmm_init
  \/ heap_init
  \/ arch_vmm_get_kernel_space_call
  \/ \E t \in Cpus, virt \in CpuVirts, phys \in ArchPhys, flags \in CpuFlagSets :
       cpu_map_enter(t, KernelSpacePtr, virt, phys, flags)
  \/ \E t \in Cpus : cpu_walk_entry(t)
  \/ \E t \in Cpus : cpu_subtable(t)
  \/ \E t \in Cpus : cpu_leaf_test(t)
  \/ \E t \in Cpus : cpu_leaf_store(t)
  \/ \E t \in Cpus : cpu_map_return(t)

SpecVmmCpus == InitVmmCpus /\ [][NextVmmCpus]_vars

\* C14: concurrent maps into one address space behave as in some sequential
\* order.  When two calls of arch_vmm_map on one space have both finished,
\* every one that returned Ok has its mapping in the tree, and two calls for
\* the same virtual page have not both returned Ok.
C14_ConcurrentMapsSerialized ==
  (/\ \A t \in Cpus : vpc[t] = "ret"
   /\ vloc["cpu0"].space = vloc["cpu1"].space) =>
    /\ \A t \in Cpus :
         vloc[t].res = "ARCH_VMM_OK" =>
           \/ arch_vmm_resolve(ArchNow, vloc[t].space, vloc[t].virt)
                = [res |-> "ARCH_VMM_OK", phys |-> vloc[t].phys]
           \/ \E u \in Cpus \ {t} : vloc[u].virt = vloc[t].virt /\ vloc[u].res = "ARCH_VMM_OK"
    /\ vloc["cpu0"].virt = vloc["cpu1"].virt =>
         ~(vloc["cpu0"].res = "ARCH_VMM_OK" /\ vloc["cpu1"].res = "ARCH_VMM_OK")
(***************************************************************************)
(* Buddy allocator state after every call (C22..C25), on SpecBuddy         *)
(***************************************************************************)
\* the block a live allocation owns, and the 4 KiB units it spans
LiveBlock(i) == heap_live[i].ptr.lo - buddy.header_size
BlockUnits(b, block) ==
  LET start == index_for_addr(b, block) IN
  start..(start + 2^HeaderAt(b, block).order \div BUDDY_MIN_BLOCK_SIZE - 1)

\* C22: after every buddy operation every block linked on a free list carries
\* magic FREE (none carries ALLOC), and no currently allocated block is linked on
\* any free list.
C22_NoAllocatedBlockOnFreeList ==
  \A o \in Orders :
    /\ \A addr \in FreeBlocks(buddy, o) : HeaderAt(buddy, addr).magic = "FREE"
    /\ \A i \in 1..Len(heap_live) : LiveBlock(i) \notin FreeBlocks(buddy, o)

\* a free has put a block back on a list while another allocation is live
C22_Witness ==
  /\ heap_last.op = "buddy_free"
  /\ Len(heap_live) >= 1
  /\ \E o \in Orders : FreeBlocks(buddy, o) # {}

C24_BlockHoldsRequest ==
  (heap_last.op = "buddy_alloc" /\ heap_last.size > 0 /\ heap_last.ptr # NullPtr) =>
     LET order == HeaderAt(buddy, heap_last.ptr.lo - buddy.header_size).order IN
     /\ order \in Orders
     /\ 2^order >= BUDDY_MIN_BLOCK_SIZE
     /\ 2^order >= heap_last.size + buddy.header_size

\* C25 as claimed: a buddy_alloc that fails for lack of a free block returns a
\* null address and leaves free lists, allocation bitmap, block headers and
\* counters as they were before the call.
C25_FailedAllocChangesNothing ==
  [][(heap_last'.op = "buddy_alloc" /\ heap_last'.size > 0 /\ heap_last'.ptr = NullPtr)
       => buddy' = buddy]_vars

(***************************************************************************)
(* Buddy misuse specification: the caller of SpecBuddy may also pass to    *)
(* buddy_free an address that is not a live allocation: one it has freed   *)
(* before, one inside a block it never got, or one outside the region      *)
(***************************************************************************)
\* addresses tried: behind the header position of the first units of the
\* region, and the same offset past the end of the region
InvalidFreeAddrs(b) ==
  {Ptr(0, b.base_addr + k * BUDDY_MIN_BLOCK_SIZE + b.header_size) : k \in 0..(MisuseUnits - 1)}
    \cup {Ptr(0, b.base_addr + b.total_size + b.header_size)}

LivePtrs == {heap_live[i].ptr : i \in 1..Len(heap_live)}

buddy_free_invalid_call(addr) ==
  /\ buddy.total_size > 0
  /\ addr \notin LivePtrs
  /\ buddy' = buddy_free(buddy, addr)
  /\ UNCHANGED heap_live
  /\ BuddyReturn("buddy_free_invalid", 0, addr.lo, "-")
  /\ BuddyUntouched

NextBuddyMisuse ==
  \/ \E r \in BuddyRegions, header_size \in BuddyHeaderSizes :
       buddy_init_call(r[1], r[2], header_size)
  \/ \E size \in BuddySizes : buddy_alloc_call(size)
  \/ \E k \in 1..Len(heap_live) : buddy_free_call(k)
  \/ \E addr \in InvalidFreeAddrs(buddy) : buddy_free_invalid_call(addr)

SpecBuddyMisuse == InitBuddy /\ [][NextBuddyMisuse]_vars

\* C21 as claimed: buddy_free of an address that is not a live allocation (it
\* was freed before, lies outside the region, or has no ALLOC header) changes no
\* free list, no bitmap bit and no block header, at any point of any sequence
\* of calls.
C21_InvalidFreeChangesNothing ==
  [][heap_last'.op = "buddy_free_invalid" =>
       /\ buddy'.free_lists = buddy.free_lists
       /\ buddy'.allocation_map = buddy.allocation_map
       /\ buddy'.headers = buddy.headers]_vars
(***************************************************************************)
(* Slab reclaim, mm/heap/slab.c: destroy_slab and slab_shrink_cache        *)
(***************************************************************************)
\* a destroy_slab that forgets the page and only counts the slab out
destroy_slab_LeaksPage(h, ci, slab) ==
  [h EXCEPT !.caches[ci].total_slabs = @ - 1, !.stats.total_slabs = @ - 1]

\* h after destroy_slab(cache, slab): the page goes back to the PMM; the
\* slab_t in the page is left as it was
destroy_slab(h, ci, slab) ==
  LET virt == VMM_X86_64_PHYS_TO_VIRT(h.slabs[slab].page_addr) IN
  [h EXCEPT !.pmm = PmmFreePage(@, VMM_X86_64_VIRT_TO_PHYS(virt).lo),
            !.caches[ci].total_slabs = @ - 1,
            !.caches[ci].total_objects =
               IF @ >= h.slabs[slab].total_objects THEN @ - h.slabs[slab].total_objects ELSE @,
            !.stats.total_slabs = @ - 1,
            !.stats.total_memory = IF @ >= SLAB_PAGE_SIZE THEN @ - SLAB_PAGE_SIZE ELSE @,
            !.stats.overhead_memory = IF @ >= SizeofSlab THEN @ - SizeofSlab ELSE @]

RECURSIVE ShrinkLoop(_, _, _, _)
\* LIST_FOR_EACH_SAFE over the empty list: [h, freed]
ShrinkLoop(h, ci, list, freed) ==
  IF list = << >> THEN [h |-> h, freed |-> freed]
  ELSE ShrinkLoop(destroy_slab([h EXCEPT !.caches[ci] = CacheUnlink(@, Head(list))],
                               ci, Head(list)),
                  ci, Tail(list), freed + 1)

RECURSIVE ShrinkAll(_, _, _)
\* the loop over g_caches of slab_shrink_cache(NULL): [h, freed]
ShrinkAll(h, i, total) ==
  IF i > Len(h.caches) THEN [h |-> h, freed |-> total]
  ELSE LET r == ShrinkLoop(h, i, h.caches[i].empty_slabs, 0) IN
       ShrinkAll(r.h, i + 1, total + r.freed)

\* [h, freed] after slab_shrink_cache(cache); ci = 0 is the NULL cache
slab_shrink_cache(h, ci) ==
  IF ci = 0 THEN ShrinkAll(h, 1, 0)
  ELSE ShrinkLoop(h, ci, h.caches[ci].empty_slabs, 0)

(***************************************************************************)
(* Slab specification: boot the PMM, slab_init, one more cache with a      *)
(* constructor and a destructor, then any order of slab_cache_alloc,       *)
(* slab_cache_free of objects the caller holds, and slab_shrink_cache      *)
(***************************************************************************)
\* a reserved low page, then usable memory for the PMM bitmap, the cache
\* descriptors and a few slabs
SlabMap == << Region(0, PAGE_SIZE, "RESERVED"),
              Region(PAGE_SIZE, PageBytes(SlabPages), "USABLE") >>

\* slab_cache_create(name, object_size, align, ctor, dtor) calls of the caller
SlabUserCaches == { <<SLAB_MAX_SIZE \div 2, 8, "obj_ctor", "obj_dtor">> }

\* the caches the caller allocates from: the 2048-byte class (one object in a
\* slab) and its own caches (three objects in a slab)
SlabCallCaches ==
  {i \in 1..Len(g_caches) : g_caches[i].object_size = SLAB_MAX_SIZE
                            \/ g_caches[i].ctor # NoCallback}

SlabCall(op, cache, n, ptr) == [op |-> op, size |-> n, ptr |-> ptr, cache |-> cache]

SlabReturn(op, cache, n, ptr) ==
  /\ heap_last' = SlabCall(op, cache, n, ptr)
  /\ Observe(Call(op, 0, n, 0, NULL, "-"))

SlabFrame == UNCHANGED <<memmap, pmm_lock, heap_initialized, buddy>>

slab_init_call ==
  /\ pmm_state.initialized /\ g_caches = << >> /\ ~Locked
  /\ SetHeap(slab_init(HeapNow))
  /\ UNCHANGED heap_live
  /\ SlabReturn("slab_init", 0, 0, NullPtr)
  /\ SlabFrame

slab_cache_create_call(object_size, align, ctor, dtor) ==
  /\ Len(g_caches) >= Len(default_sizes) /\ ~Locked
  /\ \A i \in 1..Len(g_caches) : g_caches[i].ctor # ctor
  /\ SetHeap(slab_cache_create(HeapNow, object_size, align, ctor, dtor))
  /\ UNCHANGED heap_live
  /\ SlabReturn("slab_cache_create", 0, object_size, NullPtr)
  /\ SlabFrame

slab_cache_alloc_call(ci) ==
  /\ g_stats.total_allocs + g_stats.failed_allocs < MaxSlabAllocs
  /\ ~Locked
  /\ LET r == slab_cache_alloc(HeapNow, ci) IN
     /\ SetHeap(r.h)
     /\ heap_live' = IF r.obj = NullPtr THEN heap_live
                     ELSE Append(heap_live, [ptr |-> r.obj, size |-> g_caches[ci].object_size,
                                             cache |-> ci])
     /\ SlabReturn("slab_cache_alloc", ci, 0, r.obj)
  /\ SlabFrame

slab_cache_free_call(k) ==
  /\ ~Locked
  /\ SetHeap(slab_cache_free(HeapNow, heap_live[k].cache, heap_live[k].ptr))
  /\ heap_live' = SubSeq(heap_live, 1, k - 1) \o SubSeq(heap_live, k + 1, Len(heap_live))
  /\ SlabReturn("slab_cache_free", heap_live[k].cache, 0, heap_live[k].ptr)
  /\ SlabFrame

slab_shrink_cache_call(ci) ==
  /\ g_caches # << >> /\ ~Locked
  /\ LET r == slab_shrink_cache(HeapNow, ci) IN
     /\ SetHeap(r.h)
     /\ SlabReturn("slab_shrink_cache", ci, r.freed, NullPtr)
  /\ UNCHANGED heap_live
  /\ SlabFrame

InitSlab == memmap = SlabMap /\ PmmStatic /\ VmmUnused

NextSlab ==
  \/ boot_pmm_init
  \/ slab_init_call
  \/ \E c \in SlabUserCaches : slab_cache_create_call(c[1], c[2], c[3], c[4])
  \/ \E ci \in SlabCallCaches : slab_cache_alloc_call(ci)
  \/ \E k \in 1..Len(heap_live) : slab_cache_free_call(k)
  \/ \E ci \in SlabCallCaches \cup {0} : slab_shrink_cache_call(ci)

SpecSlab == InitSlab /\ [][NextSlab]_vars

\* the slabs linked on the three lists of a cache
CacheSlabs(cache) == cache.full_slabs \o cache.partial_slabs \o cache.empty_slabs
RECURSIVE SumUsed(_, _)
\* sum over the slabs of a list of total_objects - free_objects
SumUsed(mem, list) ==
  IF list = << >> THEN 0
  ELSE mem[Head(list)].total_objects - mem[Head(list)].free_objects + SumUsed(mem, Tail(list))

\* C26: after every slab_cache_alloc, slab_cache_free and slab_shrink_cache the
\* sum over the slabs of a cache of total_objects - free_objects equals the
\* cache's allocated_objects.
C26_SlabAccounting ==
  \A ci \in 1..Len(g_caches) :
    SumUsed(slabs, CacheSlabs(g_caches[ci])) = g_caches[ci].allocated_objects

\* a shrink released a slab of a cache that still holds objects in other slabs
C26_Witness ==
  /\ heap_last.op = "slab_shrink_cache" /\ heap_last.size >= 1 /\ heap_last.cache # 0
  /\ g_caches[heap_last.cache].allocated_objects >= 2
  /\ g_caches[heap_last.cache].free_count >= 1

\* C28: slab_shrink_cache(cache) unlinks every slab on the cache's empty list,
\* hands each page back to the PMM, lowers total_slabs by the number released
\* and returns that number; the partial and full lists, their slabs, the other
\* caches and the live objects stay as they were.
C28_ShrinkReleasesEmptySlabs ==
  [][(heap_last'.op = "slab_shrink_cache" /\ heap_last'.cache # 0) =>
       LET ci == heap_last'.cache
           old == g_caches[ci]
           new == g_caches'[ci]
           kept == old.full_slabs \o old.partial_slabs
       IN /\ new.empty_slabs = << >>
          /\ heap_last'.size = Len(old.empty_slabs)
          /\ new.total_slabs = old.total_slabs - Len(old.empty_slabs)
          /\ \A k \in 1..Len(old.empty_slabs) :
               ~pmm_is_page_used_internal(bitmap', pmm_state'.total_pages,
                                          ADDR_TO_PAGE(old.empty_slabs[k]))
          /\ pmm_stats'.free_pages = pmm_stats.free_pages + Len(old.empty_slabs)
          /\ new.full_slabs = old.full_slabs /\ new.partial_slabs = old.partial_slabs
          /\ new.allocated_objects = old.allocated_objects
          /\ \A k \in 1..Len(kept) : slabs'[kept[k]] = slabs[kept[k]]
          /\ \A j \in 1..Len(g_caches) : j # ci => g_caches'[j] = g_caches[j]
          /\ heap_live' = heap_live]_vars

\* a shrink released an empty slab of a cache that also has a full or partial one
C28_Witness ==
  /\ heap_last.op = "slab_shrink_cache" /\ heap_last.size >= 1 /\ heap_last.cache # 0
  /\ g_caches[heap_last.cache].full_slabs \o g_caches[heap_last.cache].partial_slabs # << >>
  /\ Len(heap_live) >= 1
(***************************************************************************)
(* Slab fill specification: boot the PMM, slab_init, then slab_alloc calls *)
(* of sizes the 64-byte cache serves and no free, until it served MaxFill  *)
(***************************************************************************)
FillMap == << Region(0, PAGE_SIZE, "RESERVED"),
              Region(PAGE_SIZE, PageBytes(FillPages), "USABLE") >>

\* 33, 48 and 64 bytes
SlabFillSizes == {default_sizes[2] + 1, default_sizes[2] + default_sizes[1], default_sizes[3]}

\* slab_alloc(size) of a caller that keeps every object
slab_alloc_call(size) ==
  /\ g_caches # << >> /\ ~Locked
  /\ g_stats.failed_allocs = 0
  /\ \A i \in 1..Len(g_caches) : g_caches[i].alloc_count < MaxFill
  /\ LET ci == find_best_cache(g_caches, size)
         r == slab_alloc(HeapNow, size)
     IN /\ SetHeap(r.h)
        /\ heap_live' = IF r.obj = NullPtr THEN heap_live
                        ELSE Append(heap_live, [ptr |-> r.obj,
                                                size |-> g_caches[ci].object_size,
                                                cache |-> ci])
        /\ SlabReturn("slab_alloc", ci, size, r.obj)
  /\ SlabFrame

InitSlabFill == memmap = FillMap /\ PmmStatic /\ VmmUnused

NextSlabFill ==
  \/ boot_pmm_init
  \/ slab_init_call
  \/ \E size \in SlabFillSizes : slab_alloc_call(size)

SpecSlabFill == InitSlabFill /\ [][NextSlabFill]_vars

\* the slab pages the live objects of a cache lie in
LivePagesOf(ci) ==
  {heap_live[k].ptr.lo - (heap_live[k].ptr.lo % SLAB_PAGE_SIZE) :
     k \in {j \in 1..Len(heap_live) : heap_live[j].cache = ci}}

\* C27 as claimed: once an initially empty cache of 64-byte objects has served
\* 64 successful allocations and no free, all 64 objects lie in one slab, the
\* cache took one page from the PMM, and that slab is on the full list.
C27_SixtyFourFromOneSlab ==
  \A ci \in 1..Len(g_caches) :
    (g_caches[ci].object_size = 64 /\ g_caches[ci].alloc_count = 64
       /\ g_caches[ci].free_count = 0) =>
      /\ g_caches[ci].total_slabs = 1
      /\ Cardinality(LivePagesOf(ci)) = 1
      /\ Len(g_caches[ci].full_slabs) = 1
      /\ g_caches[ci].partial_slabs = << >>
(***************************************************************************)
(* Two CPUs calling the heap allocators at once.  A call is cut at every   *)
(* spinlock_lock and spinlock_unlock and at the call of a constructor or   *)
(* destructor; what runs under one lock between two cuts is one step.      *)
(* loc[t].held lists the locks CPU t acquired and did not release.         *)
(***************************************************************************)
LockSlab(ci) == [kind |-> "slab", id |-> ci]
LockBuddy == [kind |-> "buddy", id |-> 0]
LockPmm == [kind |-> "pmm", id |-> 0]

\* locals of a heap call: the cache or 0, the pointer passed or returned, the
\* requested size, the page pmm_alloc_page returned
HeapLocals(op, cache, ptr, n, held) ==
  [op |-> op, cache |-> cache, ptr |-> ptr, n |-> n, page |-> NULL, held |-> held]

\* allocation calls that have entered and not yet counted themselves
AllocsInFlight ==
  Cardinality({t \in Cpus : pc[t] # "idle" /\ loc[t].op \in {"slab_cache_alloc", "buddy_alloc"}})

OwnObjects(t) == {k \in 1..Len(heap_live) : heap_live[k].cpu = t}

LockFrame == UNCHANGED <<memmap, obsVars, vmmVars, live, access, heap_initialized>>
PmmDataSame == UNCHANGED <<pmm_state, bitmap, pmm_stats>>
SlabDataSame == UNCHANGED <<g_caches, slabs, g_stats>>

\* the call returns to its caller; held is what the CPU still holds
CpuReturn(t, held) ==
  /\ pc' = [pc EXCEPT ![t] = "idle"]
  /\ heap_last' = SlabCall(loc[t].op, loc[t].cache, loc[t].n, loc[t].ptr)
  /\ heap_live' = IF loc[t].op \in {"slab_cache_alloc", "buddy_alloc"} /\ loc[t].ptr # NullPtr
                  THEN Append(heap_live, [ptr |-> loc[t].ptr, size |-> loc[t].n,
                                          cache |-> loc[t].cache, cpu |-> t])
                  ELSE heap_live
  /\ loc' = [loc EXCEPT ![t] = [NoLocals EXCEPT !.held = held]]

\* slab_cache_alloc(cache) is entered
cpu_enter_slab_alloc(t, ci) ==
  /\ Idle(t)
  /\ HeapAllocCalls + AllocsInFlight < MaxLockAllocs
  /\ pc' = [pc EXCEPT ![t] = "slab_lock"]
  /\ loc' = [loc EXCEPT ![t] = HeapLocals("slab_cache_alloc", ci, NullPtr,
                                          g_caches[ci].object_size, loc[t].held)]
  /\ UNCHANGED <<pmm_lock, lock_holder, buddy, heap_live, heap_last>>
  /\ PmmDataSame /\ SlabDataSame /\ LockFrame

\* slab_cache_free(cache, ptr) is entered with an object the CPU allocated
cpu_enter_slab_free(t, k) ==
  /\ Idle(t)
  /\ k \in OwnObjects(t) /\ heap_live[k].cache # 0
  /\ pc' = [pc EXCEPT ![t] = "slab_lock"]
  /\ loc' = [loc EXCEPT ![t] = HeapLocals("slab_cache_free", heap_live[k].cache,
                                          heap_live[k].ptr, heap_live[k].size, loc[t].held)]
  /\ heap_live' = SubSeq(heap_live, 1, k - 1) \o SubSeq(heap_live, k + 1, Len(heap_live))
  /\ UNCHANGED <<pmm_lock, lock_holder, buddy, heap_last>>
  /\ PmmDataSame /\ SlabDataSame /\ LockFrame

\* spinlock_lock(&cache->lock)
cpu_slab_lock(t) ==
  /\ pc[t] = "slab_lock"
  /\ g_caches[loc[t].cache].lock.locked = 0
  /\ g_caches' = [g_caches EXCEPT ![loc[t].cache].lock.locked = 1]
  /\ pc' = [pc EXCEPT ![t] = "slab_locked"]
  /\ loc' = [loc EXCEPT ![t].held = @ \cup {LockSlab(loc[t].cache)}]
  /\ UNCHANGED <<pmm_lock, lock_holder, buddy, slabs, g_stats, heap_live, heap_last>>
  /\ PmmDataSame /\ LockFrame

\* slab_cache_alloc under the cache lock: an object of a partial or an empty
\* slab is taken, or create_slab is called and reaches pmm_alloc_page
cpu_slab_pick(t) ==
  /\ pc[t] = "slab_locked" /\ loc[t].op = "slab_cache_alloc"
  /\ LET ci == loc[t].cache
         r == slab_cache_alloc(HeapNow, ci)
     IN IF ~list_is_empty(g_caches[ci].partial_slabs) \/ ~list_is_empty(g_caches[ci].empty_slabs)
        THEN /\ SetHeap(r.h)
             /\ pc' = [pc EXCEPT ![t] = "slab_unlock"]
             /\ loc' = [loc EXCEPT ![t].ptr = r.obj]
        ELSE /\ pc' = [pc EXCEPT ![t] = "pmm_lock"]
             /\ UNCHANGED loc
             /\ PmmDataSame /\ SlabDataSame
  /\ UNCHANGED <<pmm_lock, lock_holder, buddy, heap_live, heap_last>>
  /\ LockFrame

\* spinlock_lock(&pmm_lock) in pmm_alloc_page, called by alloc_page of create_slab
cpu_pmm_lock(t) ==
  /\ pc[t] = "pmm_lock"
  /\ pmm_lock.locked = 0
  /\ pmm_lock' = [pmm_lock EXCEPT !.locked = 1]
  /\ lock_holder' = t
  /\ pc' = [pc EXCEPT ![t] = "pmm_locked"]
  /\ loc' = [loc EXCEPT ![t].held = @ \cup {LockPmm}]
  /\ UNCHANGED <<buddy, heap_live, heap_last>>
  /\ PmmDataSame /\ SlabDataSame /\ LockFrame

\* pmm_alloc_page under the PMM lock: search, mark, counters, hint
cpu_pmm_take(t) ==
  /\ pc[t] = "pmm_locked"
  /\ LET a == PmmAllocPage(PmmNow) IN
     /\ bitmap' = a.pmm.bitmap
     /\ pmm_state' = a.pmm.state
     /\ pmm_stats' = a.pmm.stats
     /\ loc' = [loc EXCEPT ![t].page = a.ptr]
  /\ pc' = [pc EXCEPT ![t] = "pmm_unlock"]
  /\ UNCHANGED <<pmm_lock, lock_holder, buddy, heap_live, heap_last>>
  /\ SlabDataSame /\ LockFrame

\* defect: pmm_alloc_page returns without spinlock_unlock(&pmm_lock)
cpu_pmm_unlock_Forgotten(t) ==
  /\ pc[t] = "pmm_unlock"
  /\ pc' = [pc EXCEPT ![t] = "slab_new"]
  /\ UNCHANGED <<loc, pmm_lock, lock_holder, buddy, heap_live, heap_last>>
  /\ PmmDataSame /\ SlabDataSame /\ LockFrame

\* spinlock_unlock(&pmm_lock) at the end of pmm_alloc_page
cpu_pmm_unlock(t) ==
  /\ pc[t] = "pmm_unlock"
  /\ pmm_lock' = [pmm_lock EXCEPT !.locked = 0]
  /\ lock_holder' = "none"
  /\ pc' = [pc EXCEPT ![t] = "slab_new"]
  /\ loc' = [loc EXCEPT ![t].held = @ \ {LockPmm}]
  /\ UNCHANGED <<buddy, heap_live, heap_last>>
  /\ PmmDataSame /\ SlabDataSame /\ LockFrame

\* the rest of create_slab on the page, and of slab_cache_alloc on the new slab
cpu_slab_new(t) ==
  /\ pc[t] = "slab_new"
  /\ LET ci == loc[t].cache
         c == LinkNewSlab(SlabOnPage(HeapNow, ci, [pmm |-> PmmNow, ptr |-> loc[t].page]), ci)
         r == TakeObject(HeapNow, ci, c)
     IN /\ SetHeap(r.h)
        /\ loc' = [loc EXCEPT ![t].ptr = r.obj]
  /\ pc' = [pc EXCEPT ![t] = "slab_unlock"]
  /\ UNCHANGED <<pmm_lock, lock_holder, buddy, heap_live, heap_last>>
  /\ LockFrame

\* slab_cache_free under the cache lock
cpu_slab_push(t) ==
  /\ pc[t] = "slab_locked" /\ loc[t].op = "slab_cache_free"
  /\ SetHeap(slab_cache_free(HeapNow, loc[t].cache, loc[t].ptr))
  /\ pc' = [pc EXCEPT ![t] = "slab_unlock"]
  /\ UNCHANGED <<loc, pmm_lock, lock_holder, buddy, heap_live, heap_last>>
  /\ LockFrame

\* the callback slab_cache_alloc / slab_cache_free calls after its unlock
CallbackOf(l) ==
  IF l.op = "slab_cache_alloc"
  THEN IF l.ptr = NullPtr THEN NoCallback ELSE g_caches[l.cache].ctor
  ELSE g_caches[l.cache].dtor

\* defect: the callback is reached with the cache lock still held
cpu_slab_unlock_Late(t) ==
  /\ pc[t] = "slab_unlock"
  /\ IF CallbackOf(loc[t]) # NoCallback
     THEN /\ pc' = [pc EXCEPT ![t] = "callback"]
          /\ UNCHANGED <<loc, heap_live, heap_last>>
     ELSE CpuReturn(t, loc[t].held)
  /\ UNCHANGED <<pmm_lock, lock_holder, buddy>>
  /\ PmmDataSame /\ SlabDataSame /\ LockFrame

\* spinlock_unlock(&cache->lock), then if (ctor) / if (dtor)
cpu_slab_unlock(t) ==
  /\ pc[t] = "slab_unlock"
  /\ g_caches' = [g_caches EXCEPT ![loc[t].cache].lock.locked = 0]
  /\ IF CallbackOf(loc[t]) # NoCallback
     THEN /\ pc' = [pc EXCEPT ![t] = "callback"]
          /\ loc' = [loc EXCEPT ![t].held = @ \ {LockSlab(loc[t].cache)}]
          /\ UNCHANGED <<heap_live, heap_last>>
     ELSE CpuReturn(t, loc[t].held \ {LockSlab(loc[t].cache)})
  /\ UNCHANGED <<pmm_lock, lock_holder, buddy, slabs, g_stats>>
  /\ PmmDataSame /\ LockFrame

\* ctor(obj, obj_size) / dtor(ptr, obj_size) runs and returns
cpu_slab_callback(t) ==
  /\ pc[t] = "callback"
  /\ CpuReturn(t, loc[t].held)
  /\ UNCHANGED <<pmm_lock, lock_holder, buddy>>
  /\ PmmDataSame /\ SlabDataSame /\ LockFrame

\* buddy_alloc(&buddy, size) with size > 0 is entered
cpu_enter_buddy_alloc(t, size) ==
  /\ Idle(t)
  /\ heap_initialized
  /\ HeapAllocCalls + AllocsInFlight < MaxLockAllocs
  /\ pc' = [pc EXCEPT ![t] = "buddy_lock"]
  /\ loc' = [loc EXCEPT ![t] = HeapLocals("buddy_alloc", 0, NullPtr, size, loc[t].held)]
  /\ UNCHANGED <<pmm_lock, lock_holder, buddy, heap_live, heap_last>>
  /\ PmmDataSame /\ SlabDataSame /\ LockFrame

\* buddy_free(&buddy, addr) is entered with an address the CPU was given
cpu_enter_buddy_free(t, k) ==
  /\ Idle(t)
  /\ k \in OwnObjects(t) /\ heap_live[k].cache = 0
  /\ pc' = [pc EXCEPT ![t] = "buddy_lock"]
  /\ loc' = [loc EXCEPT ![t] = HeapLocals("buddy_free", 0, heap_live[k].ptr,
                                          heap_live[k].size, loc[t].held)]
  /\ heap_live' = SubSeq(heap_live, 1, k - 1) \o SubSeq(heap_live, k + 1, Len(heap_live))
  /\ UNCHANGED <<pmm_lock, lock_holder, buddy, heap_last>>
  /\ PmmDataSame /\ SlabDataSame /\ LockFrame

\* spinlock_lock(&a->lock)
cpu_buddy_lock(t) ==
  /\ pc[t] = "buddy_lock"
  /\ buddy.lock.locked = 0
  /\ buddy' = [buddy EXCEPT !.lock.locked = 1]
  /\ pc' = [pc EXCEPT ![t] = "buddy_locked"]
  /\ loc' = [loc EXCEPT ![t].held = @ \cup {LockBuddy}]
  /\ UNCHANGED <<pmm_lock, lock_holder, heap_live, heap_last>>
  /\ PmmDataSame /\ SlabDataSame /\ LockFrame

\* buddy_alloc / buddy_free under the buddy lock
cpu_buddy_body(t) ==
  /\ pc[t] = "buddy_locked"
  /\ IF loc[t].op = "buddy_alloc"
     THEN LET r == buddy_alloc(buddy, loc[t].n) IN
          /\ buddy' = r.b
          /\ loc' = [loc EXCEPT ![t].ptr = Ptr(0, r.result)]
     ELSE /\ buddy' = buddy_free(buddy, loc[t].ptr)
          /\ UNCHANGED loc
  /\ pc' = [pc EXCEPT ![t] = "buddy_unlock"]
  /\ UNCHANGED <<pmm_lock, lock_holder, heap_live, heap_last>>
  /\ PmmDataSame /\ SlabDataSame /\ LockFrame

\* spinlock_unlock(&a->lock) and return
cpu_buddy_unlock(t) ==
  /\ pc[t] = "buddy_unlock"
  /\ buddy' = [buddy EXCEPT !.lock.locked = 0]
  /\ CpuReturn(t, loc[t].held \ {LockBuddy})
  /\ UNCHANGED <<pmm_lock, lock_holder>>
  /\ PmmDataSame /\ SlabDataSame /\ LockFrame

(***************************************************************************)
(* Lock specification: kmain boots the PMM and the heap and creates a      *)
(* cache with a constructor and a destructor; then both CPUs call          *)
(* slab_cache_alloc, slab_cache_free, buddy_alloc and buddy_free           *)
(***************************************************************************)
boot_cache_create ==
  /\ heap_initialized
  /\ \A t \in Cpus : Idle(t)
  /\ HeapAllocCalls = 0
  /\ \E c \in SlabUserCaches : slab_cache_create_call(c[1], c[2], c[3], c[4])

LockBuddySizes == {1, BUDDY_MIN_BLOCK_SIZE}

InitLocks == memmap = HeapMap /\ PmmStatic /\ VmmUnused

NextLocks ==
  \/ boot_pmm_init
  \/ heap_init
  \/ boot_cache_create
  \/ \E t \in Cpus, ci \in SlabCallCaches : cpu_enter_slab_alloc(t, ci)
  \/ \E t \in Cpus, k \in 1..Len(heap_live) : cpu_enter_slab_free(t, k)
  \/ \E t \in Cpus : cpu_slab_lock(t)
  \/ \E t \in Cpus : cpu_slab_pick(t)
  \/ \E t \in Cpus : cpu_pmm_lock(t)
  \/ \E t \in Cpus : cpu_pmm_take(t)
  \/ \E t \in Cpus : cpu_pmm_unlock(t)
  \/ \E t \in Cpus : cpu_slab_new(t)
  \/ \E t \in Cpus : cpu_slab_push(t)
  \/ \E t \in Cpus : cpu_slab_unlock(t)
  \/ \E t \in Cpus : cpu_slab_callback(t)
  \/ \E t \in Cpus, size \in LockBuddySizes : cpu_enter_buddy_alloc(t, size)
  \/ \E t \in Cpus, k \in 1..Len(heap_live) : cpu_enter_buddy_free(t, k)
  \/ \E t \in Cpus : cpu_buddy_lock(t)
  \/ \E t \in Cpus : cpu_buddy_body(t)
  \/ \E t \in Cpus : cpu_buddy_unlock(t)

SpecLocks == InitLocks /\ [][NextLocks]_vars

\* C29: whenever a slab constructor or destructor is being called by
\* slab_cache_alloc or slab_cache_free, the calling CPU has released the cache
\* lock and holds no other allocator lock.
C29_CallbacksRunUnlocked ==
  \A t \in Cpus : pc[t] = "callback" => loc[t].held = {}

\* a constructor and a destructor are being called at the same time
C29_Witness ==
  \E t, u \in Cpus :
    /\ pc[t] = "callback" /\ loc[t].op = "slab_cache_alloc"
    /\ pc[u] = "callback" /\ loc[u].op = "slab_cache_free"

\* the place of a lock in the order slab cache lock, buddy lock, PMM lock
LockRank(l) == CASE l.kind = "slab" -> 1 [] l.kind = "buddy" -> 2 [] OTHER -> 3

\* the lock a CPU is spinning on or about to take
Wants(t) ==
  CASE pc[t] = "slab_lock" -> {LockSlab(loc[t].cache)}
    [] pc[t] = "buddy_lock" -> {LockBuddy}
    [] pc[t] = "pmm_lock" -> {LockPmm}
    [] OTHER -> {}

WaitCycle ==
  \E t, u \in Cpus : Wants(t) \cap loc[u].held # {} /\ Wants(u) \cap loc[t].held # {}

\* C30: a CPU that holds an allocator lock acquires another only later in the
\* order slab cache lock, buddy lock, PMM lock, and no CPUs wait for locks held
\* by each other.
C30_LockOrder ==
  [][/\ \A t \in Cpus : \A l \in loc'[t].held \ loc[t].held :
          \A h \in loc[t].held : LockRank(h) < LockRank(l)
     /\ ~WaitCycle']_vars

\* one CPU holds a cache lock and the PMM lock while the other, holding a cache
\* lock too, waits for the PMM lock
C30_Witness ==
  \E t, u \in Cpus :
    /\ LockPmm \in loc[t].held /\ Cardinality(loc[t].held) = 2
    /\ pc[u] = "pmm_lock" /\ loc[u].held # {}

(***************************************************************************)
(* Two CPUs in the PMM under a fair scheduler: a CPU inside a call keeps   *)
(* executing, so each of its steps is taken if it stays possible.  The     *)
(* exchange of spinlock_lock succeeds only at a moment the lock word is 0; *)
(* nothing orders the waiters, so the step gets weak fairness only.        *)
(* Entering a call is the caller's choice and carries no fairness.         *)
(***************************************************************************)
CpuRuns(t) ==
  /\ WF_vars(spinlock_lock(t))
  /\ WF_vars(cpu_search(t))
  /\ WF_vars(cpu_mark(t))
  /\ WF_vars(spinlock_unlock(t))

SpecCpusFair == SpecCpus /\ \A t \in Cpus : CpuRuns(t)

\* C31 as claimed: a CPU that tries to acquire pmm_lock eventually acquires
\* it, and every PMM call that was entered eventually returns, also while the
\* other CPU keeps acquiring and releasing the same lock.
C31_LockWaitEnds ==
  \A t \in Cpus : /\ (pc[t] = "lock") ~> (pc[t] = "search")
                  /\ (pc[t] # "idle") ~> (pc[t] = "idle")

(***************************************************************************)
(* Heap routing, mm/heap/heap.c                                            *)
(***************************************************************************)
\* p points into a page that is a slab linked on a list of one of the caches
PtrInSlabPage(caches, sl, p) ==
  LET page == p.lo - (p.lo % SLAB_PAGE_SIZE) IN
  /\ p.hi = DIRECT_MAP_HI
  /\ page \in DOMAIN sl
  /\ sl[page].magic = "SLAB_MAGIC"
  /\ page + SizeofSlab <= p.lo
  /\ \E i \in 1..Len(caches) :
       \E l \in {caches[i].full_slabs, caches[i].partial_slabs, caches[i].empty_slabs} :
         \E k \in 1..Len(l) : l[k] = page

\* p points behind the header of an allocated block of the buddy region
PtrInBuddyBlock(b, p) ==
  LET block == p.lo - b.header_size
      order == HeaderAt(b, block).order
  IN /\ p.hi = KERNEL_BASE_HI
     /\ b.base_addr <= block
     /\ HeaderAt(b, block).magic = "ALLOC"
     /\ block + 2^order <= b.base_addr + b.total_size
     /\ p.lo < block + 2^order

\* the live allocation a kfree(ptr) step releases
FreedAllocation(ptr) ==
  heap_live[CHOOSE i \in 1..Len(heap_live) :
              heap_live[i].ptr = ptr /\ \A j \in 1..(i - 1) : heap_live[j].ptr # ptr]

\* C32: every pointer a successful kmalloc(n) returned lies within a slab page
\* if n <= 2048 and within a buddy block otherwise, and kfree of it is served
\* by the allocator that produced it: slab_cache_free counts a free and the
\* buddy allocator is untouched, or buddy_free counts a free and the slab
\* allocator is untouched.
C32_SizeRouting ==
  [][/\ \A i \in 1..Len(heap_live') :
          IF heap_live'[i].size <= HEAP_SLAB_MAX_SIZE
          THEN PtrInSlabPage(g_caches', slabs', heap_live'[i].ptr)
          ELSE PtrInBuddyBlock(buddy', heap_live'[i].ptr)
     /\ Len(heap_live') < Len(heap_live) =>
          IF FreedAllocation(heap_last'.ptr).size <= HEAP_SLAB_MAX_SIZE
          THEN /\ g_stats'.total_frees = g_stats.total_frees + 1
               /\ buddy' = buddy
          ELSE /\ buddy'.total_frees = buddy.total_frees + 1
               /\ UNCHANGED <<g_caches, slabs, g_stats>>]_vars

\* kfree has released a slab object and a buddy block, and an allocation of
\* each kind had been live together
C32_Witness ==
  /\ heap_last.op = "kfree"
  /\ g_stats.total_frees >= 1 /\ buddy.total_frees >= 1
  /\ g_stats.total_allocs >= 2

(***************************************************************************)
(* krealloc.  heap.h declares it and kmain's test_heap_realloc calls it;   *)
(* its body is modelled from its contract: krealloc(NULL, n) is kalloc(n), *)
(* krealloc(p, 0) is kfree(p) and returns NULL, otherwise a new block is   *)
(* allocated, min(old, new) bytes are copied and the old block is freed.   *)
(* kmalloc and kfree are those of heap.c, as functions of the heap state.  *)
(***************************************************************************)
HeapAll == [h |-> HeapNow, b |-> buddy, live |-> heap_live]

\* [st, ptr] after kmalloc(size)
KmallocIn(st, size) ==
  IF ~heap_initialized \/ size = 0 THEN [st |-> st, ptr |-> NullPtr]
  ELSE IF size <= HEAP_SLAB_MAX_SIZE
  THEN LET r == slab_alloc(st.h, size) IN
       [st |-> [st EXCEPT !.h = r.h,
                          !.live = IF r.obj = NullPtr THEN @
                                   ELSE Append(@, [ptr |-> r.obj, size |-> size])],
        ptr |-> r.obj]
  ELSE LET r == buddy_alloc(st.b, size)
           ptr == IF r.result = 0 THEN NullPtr ELSE vmm_phys_to_virt(r.result)
       IN [st |-> [st EXCEPT !.b = r.b,
                             !.live = IF ptr = NullPtr THEN @
                                      ELSE Append(@, [ptr |-> ptr, size |-> size])],
           ptr |-> ptr]

\* st without the caller's record of ptr
Forget(st, ptr) ==
  LET k == CHOOSE i \in 1..Len(st.live) :
             st.live[i].ptr = ptr /\ \A j \in 1..(i - 1) : st.live[j].ptr # ptr
  IN [st EXCEPT !.live = SubSeq(@, 1, k - 1) \o SubSeq(@, k + 1, Len(@))]

\* defect: a pointer no slab cache owns is dropped instead of being handed to
\* buddy_free
KfreeIn_SlabOnly(st, ptr) ==
  LET ci == slab_find_cache_for_ptr(st.h.caches, ptr) IN
  IF ~heap_initialized \/ ptr = NullPtr THEN st
  ELSE IF SLAB_PTR_VALID(ptr) /\ ci # 0
  THEN Forget([st EXCEPT !.h = slab_cache_free(@, ci, ptr)], ptr)
  ELSE Forget(st, ptr)

\* st after kfree(ptr) of a pointer the caller holds
KfreeIn(st, ptr) ==
  LET ci == slab_find_cache_for_ptr(st.h.caches, ptr) IN
  IF ~heap_initialized \/ ptr = NullPtr THEN st
  ELSE IF SLAB_PTR_VALID(ptr) /\ ci # 0
  THEN Forget([st EXCEPT !.h = slab_cache_free(@, ci, ptr)], ptr)
  ELSE Forget([st EXCEPT !.b = buddy_free(@, vmm_virt_to_phys(ptr))], ptr)

\* [st, ptr] after krealloc(ptr, new_size)
KreallocIn(st, ptr, new_size) ==
  IF ptr = NullPtr THEN KmallocIn(st, new_size)
  ELSE IF new_size = 0 THEN [st |-> KfreeIn(st, ptr), ptr |-> NullPtr]
  ELSE LET a == KmallocIn(st, new_size) IN
       IF a.ptr = NullPtr THEN [st |-> st, ptr |-> NullPtr]
       ELSE [st |-> KfreeIn(a.st, ptr), ptr |-> a.ptr]

\* krealloc(ptr, new_size) for NULL or a pointer the caller holds
krealloc(ptr, new_size) ==
  /\ heap_initialized /\ ~Locked
  /\ HeapAllocCalls < MaxHeapAllocs
  /\ ptr = NullPtr \/ \E k \in 1..Len(heap_live) : heap_live[k].ptr = ptr
  /\ LET r == KreallocIn(HeapAll, ptr, new_size) IN
     /\ SetHeap(r.st.h)
     /\ buddy' = r.st.b
     /\ heap_live' = r.st.live
     /\ HeapReturn("krealloc", new_size, r.ptr)
  /\ UNCHANGED <<memmap, pmm_lock, heap_initialized>>

\* nothing, a slab size, the first buddy size
ReallocSizes == {0, 16, HEAP_SLAB_MAX_SIZE + 1}

NextRealloc ==
  \/ boot_pmm_init
  \/ heap_init
  \/ \E size \in HeapSizes : kmalloc(size)
  \/ \E k \in 1..Len(heap_live) : kfree(heap_live[k].ptr)
  \/ \E new_size \in ReallocSizes : krealloc(NullPtr, new_size)
  \/ \E k \in 1..Len(heap_live), new_size \in ReallocSizes :
       krealloc(heap_live[k].ptr, new_size)

SpecRealloc == InitHeap /\ [][NextRealloc]_vars

\* a krealloc(p, 0) step that took p from the caller
ReallocZeroStep ==
  /\ heap_last'.op = "krealloc" /\ heap_last'.size = 0
  /\ Len(heap_live') < Len(heap_live)

\* the step gave the object at a.ptr back to its slab: it heads the slab's free
\* list, the slab and its cache count one object less in use, the buddy
\* allocator is untouched
SlabObjectReleased(a) ==
  LET page == a.ptr.lo - (a.ptr.lo % SLAB_PAGE_SIZE)
      ci == slab_find_cache_for_ptr(g_caches, a.ptr)
  IN /\ ci # 0
     /\ slabs'[page].free_list = <<a.ptr>> \o slabs[page].free_list
     /\ slabs'[page].free_objects = slabs[page].free_objects + 1
     /\ g_caches'[ci].allocated_objects = g_caches[ci].allocated_objects - 1
     /\ g_stats'.total_frees = g_stats.total_frees + 1
     /\ buddy' = buddy

\* the step gave the block behind a.ptr back to the buddy allocator: its units
\* are clear in the allocation bitmap, a free is counted, the slab allocator
\* is untouched
BuddyBlockReleased(a) ==
  LET block == a.ptr.lo - buddy.header_size
      order == HeaderAt(buddy, block).order
      start == index_for_addr(buddy, block)
  IN /\ \A i \in start..(start + (2^order \div BUDDY_MIN_BLOCK_SIZE) - 1) :
          ~bitmap_get(buddy'.allocation_map, i)
     /\ buddy'.total_frees = buddy.total_frees + 1
     /\ UNCHANGED <<g_caches, slabs, g_stats>>

\* C33: krealloc(p, 0) for a live allocation p returns NULL and leaves the heap
\* as kfree(p) leaves it: p is no longer held, and its slab object or its
\* buddy block is released exactly as slab_cache_free or buddy_free release it.
C33_ReallocZeroFrees ==
  [][ReallocZeroStep =>
       /\ heap_last'.ptr = NullPtr
       /\ \E k \in 1..Len(heap_live) :
            /\ heap_live' = SubSeq(heap_live, 1, k - 1)
                              \o SubSeq(heap_live, k + 1, Len(heap_live))
            /\ IF heap_live[k].size <= HEAP_SLAB_MAX_SIZE
               THEN SlabObjectReleased(heap_live[k])
               ELSE BuddyBlockReleased(heap_live[k])]_vars

\* krealloc(p, 0) has just released a buddy block while a slab object is live
C33_Witness ==
  /\ heap_last.op = "krealloc" /\ heap_last.size = 0
  /\ buddy.total_frees = 1
  /\ \E i \in 1..Len(heap_live) : heap_live[i].size <= HEAP_SLAB_MAX_SIZE

(***************************************************************************)
(* kcalloc, mm/heap/heap.c.  A size_t is kept as its eight bytes, least    *)
(* significant first, so that nmemb * size wraps at 2^64 as it does in C.  *)
(***************************************************************************)
RECURSIVE LimbsOf(_, _)
\* the k low bytes of n
LimbsOf(n, k) == IF k = 0 THEN << >> ELSE <<n % 2^8>> \o LimbsOf(n \div 2^8, k - 1)

\* the size_t hi * 2^32 + lo
U64(hi, lo) == LimbsOf(lo, 4) \o LimbsOf(hi, 4)

RECURSIVE ColumnSum(_, _, _, _)
\* the byte products a[i] * b[j] that land in byte k of the product
ColumnSum(a, b, k, i) ==
  IF i > k THEN 0
  ELSE (IF i <= Len(a) /\ k + 1 - i <= Len(b) THEN a[i] * b[k + 1 - i] ELSE 0)
       + ColumnSum(a, b, k, i + 1)

RECURSIVE MulLimbs(_, _, _, _, _)
\* bytes k..n of a * b, carry coming in from byte k - 1
MulLimbs(a, b, k, carry, n) ==
  IF k > n THEN << >>
  ELSE LET s == ColumnSum(a, b, k, 1) + carry
       IN <<s % 2^8>> \o MulLimbs(a, b, k + 1, s \div 2^8, n)

\* nmemb * size in size_t arithmetic: the product modulo 2^64
MulSizeT(a, b) == MulLimbs(a, b, 1, 0, 8)
\* the mathematical product, sixteen bytes
Product(a, b) == MulLimbs(a, b, 1, 0, 16)

\* the value fits the model's integers, and then is that integer
FitsInt(x) == x[4] < 2^7 /\ \A i \in 5..Len(x) : x[i] = 0
ToInt(x) == x[1] + 2^8 * x[2] + 2^16 * x[3] + 2^24 * x[4]

\* kcalloc(nmemb, size): total = nmemb * size; ptr = kmalloc(total); if (ptr)
\* memset(ptr, 0, total).  The call is recorded with its operands, the number
\* of bytes zeroed and the pointer returned.
kcalloc(nmemb, size) ==
  /\ heap_initialized /\ ~Locked
  /\ HeapAllocCalls < MaxHeapAllocs
  /\ FitsInt(MulSizeT(nmemb, size))
  /\ LET total == ToInt(MulSizeT(nmemb, size))
         r == KmallocIn(HeapAll, total)
     IN /\ SetHeap(r.st.h)
        /\ buddy' = r.st.b
        /\ heap_live' = r.st.live
        /\ heap_last' = HeapCall("kcalloc", total, r.ptr)
        /\ Observe(Call("kcalloc", nmemb, IF r.ptr = NullPtr THEN 0 ELSE total, size,
                        NULL, "-"))
  /\ UNCHANGED <<memmap, pmm_lock, heap_initialized>>

\* <<nmemb, size>>: the test's 100 words, no element, one and two objects of
\* 2 KiB, 2^32 elements of 2^32 bytes, and 2^61 + 2 elements of 8 bytes
CallocPairs == { <<U64(0, 100), U64(0, 4)>>,
                 <<U64(0, 0), U64(0, 16)>>,
                 <<U64(0, 1), U64(0, SLAB_MAX_SIZE)>>,
                 <<U64(0, 2), U64(0, SLAB_MAX_SIZE)>>,
                 <<U64(1, 0), U64(1, 0)>>,
                 <<U64(2^29, 2), U64(0, 8)>> }

NextCalloc ==
  \/ boot_pmm_init
  \/ heap_init
  \/ \E p \in CallocPairs : kcalloc(p[1], p[2])
  \/ \E k \in 1..Len(heap_live) : kfree(heap_live[k].ptr)

SpecCalloc == InitHeap /\ [][NextCalloc]_vars

\* bytes from p to the end of the slab object or buddy block p lies in
BlockBytes(p) ==
  IF p.hi = DIRECT_MAP_HI
  THEN g_caches[slab_find_cache_for_ptr(g_caches, p)].object_size
  ELSE LET block == p.lo - buddy.header_size
       IN block + 2^(HeaderAt(buddy, block).order) - p.lo

\* C34 as claimed: kcalloc(nmemb, size) returns NULL or a pointer to a block
\* of at least nmemb x size bytes, the mathematical product, all of which
\* were set to zero.
C34_CallocHoldsProduct ==
  last.op = "kcalloc" /\ heap_last.ptr # NullPtr =>
    LET product == Product(last.a, last.b) IN
    /\ FitsInt(product)
    /\ ToInt(product) <= BlockBytes(heap_last.ptr)
    /\ ToInt(product) <= last.n

(***************************************************************************)
(* Slab lists                                                              *)
(***************************************************************************)
\* the slab is linked once on the list and on neither of the other two
OnlyOn(list, other1, other2, slab) ==
  /\ Len(SelectSeq(list, LAMBDA x : x = slab)) = 1
  /\ \A k \in 1..Len(other1) : other1[k] # slab
  /\ \A k \in 1..Len(other2) : other2[k] # slab

\* C35: after every slab_cache_alloc and slab_cache_free each slab of a cache
\* is on exactly one of the cache's three lists, the one its counters name:
\* full iff free_objects = 0, empty iff free_objects = total_objects, partial
\* otherwise; and every slab the cache counts is on a list.
C35_ListByCounters ==
  \A ci \in 1..Len(g_caches) :
    LET cache == g_caches[ci] IN
    /\ Len(CacheSlabs(cache)) = cache.total_slabs
    /\ \A k \in 1..Len(CacheSlabs(cache)) :
         LET slab == CacheSlabs(cache)[k]
             s == slabs[slab]
         IN IF s.free_objects = 0
            THEN OnlyOn(cache.full_slabs, cache.partial_slabs, cache.empty_slabs, slab)
            ELSE IF s.free_objects = s.total_objects
            THEN OnlyOn(cache.empty_slabs, cache.full_slabs, cache.partial_slabs, slab)
            ELSE OnlyOn(cache.partial_slabs, cache.full_slabs, cache.empty_slabs, slab)

\* after a slab_cache_free one cache has a full and an empty slab, and a cache
\* has a partial slab
C35_Witness ==
  /\ heap_last.op = "slab_cache_free"
  /\ \E ci \in 1..Len(g_caches) :
       g_caches[ci].full_slabs # << >> /\ g_caches[ci].empty_slabs # << >>
  /\ \E cj \in 1..Len(g_caches) : g_caches[cj].partial_slabs # << >>

(***************************************************************************)
(* Protected pages of the PMM                                              *)
(***************************************************************************)
\* page 0 and the pages that hold the bitmap, pmm_init steps 7 and 8
ProtectedPages ==
  {0} \cup (ADDR_TO_PAGE(pmm_state.bitmap)
              .. ADDR_TO_PAGE(pmm_state.bitmap + pmm_state.bitmap_size - 1))

\* C36 as claimed: after pmm_init and any sequence of PMM calls, frees of
\* arbitrary addresses included, page 0 and the pages backing the bitmap stay
\* marked used (a free of one of them is rejected) and no allocation returns
\* one of them.
C36_ProtectedPagesStayUsed ==
  pmm_state.initialized =>
    /\ \A p \in ProtectedPages :
         pmm_is_page_used_internal(bitmap, pmm_state.total_pages, p)
    /\ (last.op \in {"pmm_alloc_page", "pmm_alloc_pages", "pmm_alloc_aligned",
                     "pmm_alloc_pages_in_range"} /\ last.ptr # NULL) =>
         \A p \in ProtectedPages :
           p < ADDR_TO_PAGE(last.ptr)
           \/ p >= ADDR_TO_PAGE(last.ptr) + (IF last.op = "pmm_alloc_page" THEN 1 ELSE last.n)

(***************************************************************************)
(* Completeness of the contiguous search                                   *)
(***************************************************************************)
\* pages [start, start + count) exist and are all free
FreeRunAt(start, count) ==
  /\ start + count <= pmm_state.total_pages
  /\ \A i \in start..(start + count - 1) :
       ~pmm_is_page_used_internal(bitmap, pmm_state.total_pages, i)

\* C37: pmm_alloc_pages(n), n >= 1, returns NULL only when no run of n
\* contiguous free pages exists in [0, total_pages), whatever next_free_hint
\* is: the scan from the hint and the wrap-around scan from page 0 together
\* find a run whenever there is one, also one that straddles the hint.
C37_NullOnlyWithoutRun ==
  (pmm_state.initialized /\ last.op = "pmm_alloc_pages" /\ last.n >= 1
     /\ last.ptr = NULL) =>
    \A start \in 0..pmm_state.total_pages : ~FreeRunAt(start, last.n)

\* pmm_alloc_pages(n) returned NULL for n >= 2 although n pages are free, with
\* the hint inside the bitmap, so that both scans ran over fragmented memory
C37_Witness ==
  /\ pmm_state.initialized /\ last.op = "pmm_alloc_pages" /\ last.ptr = NULL
  /\ last.n >= 2 /\ pmm_stats.free_pages >= last.n
  /\ pmm_state.next_free_hint > 0
  /\ pmm_state.next_free_hint + last.n <= pmm_state.total_pages

(***************************************************************************)
(* slab_shrink_cache next to slab_cache_alloc and slab_cache_free on two   *)
(* CPUs.  slab_shrink_cache takes no lock: its walk over the empty list is *)
(* cut at the read of the list links, at list_remove, at the lock and the  *)
(* unlock of pmm_free_page inside destroy_slab, and at destroy_slab's      *)
(* counter updates.  The caches of this specification never hold more than *)
(* one slab, so the successor LIST_FOR_EACH_SAFE saves is the list head.   *)
(***************************************************************************)
\* locals of slab_shrink_cache: page is `it`, tmp its saved successor (NULL
\* stands for the list head), n is freed
ShrinkLocals(cache, it, tmp, freed, held) ==
  [op |-> "slab_shrink_cache", cache |-> cache, ptr |-> NullPtr, n |-> freed,
   page |-> it, tmp |-> tmp, held |-> held]

\* node->next for a slab linked on one of the cache's lists; NULL at the end
\* of the list or for a node that is not linked
SuccIn(cache, node) ==
  LET at(l) == {k \in 1..Len(l) : l[k] = node}
      next(l) == IF at(l) = {} \/ (CHOOSE k \in at(l) : TRUE) = Len(l) THEN NULL
                 ELSE l[(CHOOSE k \in at(l) : TRUE) + 1]
  IN IF at(cache.empty_slabs) # {} THEN next(cache.empty_slabs)
     ELSE IF at(cache.partial_slabs) # {} THEN next(cache.partial_slabs)
     ELSE next(cache.full_slabs)

ShrinkCaches == {i \in 1..Len(g_caches) : g_caches[i].ctor # NoCallback}

\* slab_shrink_cache(cache) is entered: it = head->next, tmp = it->next
cpu_enter_shrink(t, ci) ==
  /\ Idle(t)
  /\ LET list == g_caches[ci].empty_slabs
         it == IF list = << >> THEN NULL ELSE Head(list)
     IN loc' = [loc EXCEPT ![t] = ShrinkLocals(ci, it, SuccIn(g_caches[ci], it), 0,
                                               loc[t].held)]
  /\ pc' = [pc EXCEPT ![t] = "shrink_walk"]
  /\ UNCHANGED <<pmm_lock, lock_holder, buddy, heap_live, heap_last>>
  /\ PmmDataSame /\ SlabDataSame /\ LockFrame

\* the loop test, and list_remove(&slab->node) on the slab `it` points at
cpu_shrink_unlink(t) ==
  /\ pc[t] = "shrink_walk"
  /\ IF loc[t].page = NULL
     THEN /\ CpuReturn(t, loc[t].held)
          /\ SlabDataSame
     ELSE /\ g_caches' = [g_caches EXCEPT ![loc[t].cache] = CacheUnlink(@, loc[t].page)]
          /\ pc' = [pc EXCEPT ![t] = "shrink_pmm_lock"]
          /\ UNCHANGED <<loc, slabs, g_stats, heap_live, heap_last>>
  /\ UNCHANGED <<pmm_lock, lock_holder, buddy>>
  /\ PmmDataSame /\ LockFrame

\* destroy_slab: spinlock_lock(&pmm_lock) in pmm_free_page
cpu_shrink_pmm_lock(t) ==
  /\ pc[t] = "shrink_pmm_lock"
  /\ pmm_lock.locked = 0
  /\ pmm_lock' = [pmm_lock EXCEPT !.locked = 1]
  /\ lock_holder' = t
  /\ pc' = [pc EXCEPT ![t] = "shrink_pmm_locked"]
  /\ loc' = [loc EXCEPT ![t].held = @ \cup {LockPmm}]
  /\ UNCHANGED <<buddy, heap_live, heap_last>>
  /\ PmmDataSame /\ SlabDataSame /\ LockFrame

\* pmm_free_page under the PMM lock, and its spinlock_unlock
cpu_shrink_pmm_free(t) ==
  /\ pc[t] = "shrink_pmm_locked"
  /\ LET p == PmmFreePage(PmmNow, VMM_X86_64_VIRT_TO_PHYS(
                 VMM_X86_64_PHYS_TO_VIRT(slabs[loc[t].page].page_addr)).lo)
     IN bitmap' = p.bitmap /\ pmm_state' = p.state /\ pmm_stats' = p.stats
  /\ pmm_lock' = [pmm_lock EXCEPT !.locked = 0]
  /\ lock_holder' = "none"
  /\ pc' = [pc EXCEPT ![t] = "shrink_count"]
  /\ loc' = [loc EXCEPT ![t].held = @ \ {LockPmm}]
  /\ UNCHANGED <<buddy, heap_live, heap_last>>
  /\ SlabDataSame /\ LockFrame

\* the counter updates of destroy_slab, freed++, and the loop step it = tmp,
\* tmp = it->next
cpu_shrink_count(t) ==
  /\ pc[t] = "shrink_count"
  /\ LET ci == loc[t].cache
         r == destroy_slab(HeapNow, ci, loc[t].page)
     IN /\ g_caches' = r.caches
        /\ g_stats' = r.stats
        /\ loc' = [loc EXCEPT ![t].n = @ + 1,
                              ![t].page = loc[t].tmp,
                              ![t].tmp = SuccIn(r.caches[ci], loc[t].tmp)]
  /\ pc' = [pc EXCEPT ![t] = "shrink_walk"]
  /\ UNCHANGED <<pmm_lock, lock_holder, buddy, slabs, heap_live, heap_last>>
  /\ PmmDataSame /\ LockFrame

NextShrink ==
  \/ boot_pmm_init
  \/ heap_init
  \/ boot_cache_create
  \/ \E t \in Cpus, ci \in ShrinkCaches : cpu_enter_slab_alloc(t, ci)
  \/ \E t \in Cpus, k \in 1..Len(heap_live) : cpu_enter_slab_free(t, k)
  \/ \E t \in Cpus : cpu_slab_lock(t)
  \/ \E t \in Cpus : cpu_slab_pick(t)
  \/ \E t \in Cpus : cpu_pmm_lock(t)
  \/ \E t \in Cpus : cpu_pmm_take(t)
  \/ \E t \in Cpus : cpu_pmm_unlock(t)
  \/ \E t \in Cpus : cpu_slab_new(t)
  \/ \E t \in Cpus : cpu_slab_push(t)
  \/ \E t \in Cpus : cpu_slab_unlock(t)
  \/ \E t \in Cpus : cpu_slab_callback(t)
  \/ \E t \in Cpus, ci \in ShrinkCaches : cpu_enter_shrink(t, ci)
  \/ \E t \in Cpus : cpu_shrink_unlink(t)
  \/ \E t \in Cpus : cpu_shrink_pmm_lock(t)
  \/ \E t \in Cpus : cpu_shrink_pmm_free(t)
  \/ \E t \in Cpus : cpu_shrink_count(t)

SpecShrink == InitLocks /\ [][NextShrink]_vars

\* the lists and counters of a cache, without its lock word
CacheData(cache) == [cache EXCEPT !.lock = [locked |-> 0]]

\* the slabs linked on the cache, with their free lists and counters
SlabData(cache, sl) == [s \in {CacheSlabs(cache)[k] : k \in 1..Len(CacheSlabs(cache))} |-> sl[s]]

\* the page of the slab holding the object is marked used in the PMM
ObjectPageHeld(bm, tp, ptr) ==
  pmm_is_page_used_internal(bm, tp, ADDR_TO_PAGE(ptr.lo - (ptr.lo % SLAB_PAGE_SIZE)))

\* C38 as claimed: every step of a CPU that changes the lists or counters of
\* a cache, or the free lists of its slabs, is made by a CPU holding that
\* cache's spinlock, in alloc, free and shrink_cache alike; and the page of
\* a slab that holds an object a CPU was given or is being given is never
\* released.
C38_CacheChangedUnderLock ==
  [][/\ \A t \in Cpus : \A ci \in 1..Len(g_caches) :
          (pc'[t] # pc[t] /\ Len(g_caches') = Len(g_caches)
             /\ (CacheData(g_caches'[ci]) # CacheData(g_caches[ci])
                   \/ SlabData(g_caches[ci], slabs') # SlabData(g_caches[ci], slabs)))
            => LockSlab(ci) \in loc[t].held
     /\ \A k \in 1..Len(heap_live') :
          heap_live'[k].cache # 0 =>
            ObjectPageHeld(bitmap', pmm_state'.total_pages, heap_live'[k].ptr)]_vars

(***************************************************************************)
(* SpecVmmInit: two CPUs calling vmm_init of mm/vmm.c, cut at every        *)
(* spinlock_lock and spinlock_unlock of vmm_lock.  A CPU holds vmm_lock    *)
(* exactly while it stands between a lock and the next unlock.             *)
(***************************************************************************)
VmmLockHeldPcs == {"vi_check", "vi_set"}
VmmLockFree == \A u \in Cpus : vpc[u] \notin VmmLockHeldPcs

VmmInitAt(t, to, res) ==
  /\ vpc' = [vpc EXCEPT ![t] = to]
  /\ vloc' = [vloc EXCEPT ![t].res = res]

VmmInitFrame ==
  UNCHANGED <<memmap, pmmVars, heapVars, obsVars, cpuVars,
              pt_mem, cr3, spaces, vmm_arch, vmm_last>>

\* spinlock_lock(&vmm_lock) at the entry of vmm_init
cpu_vmm_init_lock(t) ==
  /\ vpc[t] = "idle"
  /\ pmm_state.initialized
  /\ VmmLockFree
  /\ VmmInitAt(t, "vi_check", "-")
  /\ UNCHANGED vmm_state
  /\ VmmInitFrame

\* if (vmm_state.initialized) { warn; unlock; return; }  unlock; pmm_get_stats()
cpu_vmm_init_check(t) ==
  /\ vpc[t] = "vi_check"
  /\ IF vmm_state.initialized THEN VmmInitAt(t, "ret", "ignored")
     ELSE VmmInitAt(t, "vi_verified", "-")
  /\ UNCHANGED vmm_state
  /\ VmmInitFrame

\* spinlock_lock; klog_info("PMM verificato"); spinlock_unlock
cpu_vmm_init_verified(t) ==
  /\ vpc[t] = "vi_verified"
  /\ VmmLockFree
  /\ VmmInitAt(t, "vi_arch", "-")
  /\ UNCHANGED vmm_state
  /\ VmmInitFrame

\* arch_vmm_init(), called with vmm_lock released
cpu_vmm_init_arch(t) ==
  /\ vpc[t] = "vi_arch"
  /\ vmm_x86_64_init_paging(X64Now, memmap).ok
  /\ SetX64(vmm_x86_64_init_paging(X64Now, memmap).m)
  /\ VmmInitAt(t, "vi_backend", "backend")
  /\ UNCHANGED <<memmap, pmm_lock, heapVars, obsVars, cpuVars, vmm_state, vmm_last>>

\* spinlock_lock; spinlock_unlock; kernel_space = arch_vmm_get_kernel_space()
cpu_vmm_init_kernel_space(t) ==
  /\ vpc[t] = "vi_backend"
  /\ VmmLockFree
  /\ VmmInitAt(t, "vi_relock", "backend")
  /\ UNCHANGED vmm_state
  /\ VmmInitFrame

\* spinlock_lock(&vmm_lock) before the state is written
cpu_vmm_init_relock(t) ==
  /\ vpc[t] = "vi_relock"
  /\ VmmLockFree
  /\ VmmInitAt(t, "vi_set", "backend")
  /\ UNCHANGED vmm_state
  /\ VmmInitFrame

\* the writes of vmm_state under the lock, then spinlock_unlock and return
cpu_vmm_init_set(t) ==
  /\ vpc[t] = "vi_set"
  /\ vmm_state' = [initialized |-> TRUE, kernel_space |-> KernelSpacePtr,
                   total_spaces_created |-> 1, total_mappings |-> 0,
                   total_unmappings |-> 0]
  /\ VmmInitAt(t, "ret", "initialized")
  /\ VmmInitFrame

NextVmmInit ==
  \/ boot_pmm_init
  \/ \E t \in Cpus : cpu_vmm_init_lock(t)
  \/ \E t \in Cpus : cpu_vmm_init_check(t)
  \/ \E t \in Cpus : cpu_vmm_init_verified(t)
  \/ \E t \in Cpus : cpu_vmm_init_arch(t)
  \/ \E t \in Cpus : cpu_vmm_init_kernel_space(t)
  \/ \E t \in Cpus : cpu_vmm_init_relock(t)
  \/ \E t \in Cpus : cpu_vmm_init_set(t)

\* the boot loader leaves one of its page-table layouts behind
InitVmmInit ==
  /\ memmap = RangeMap
  /\ PmmStatic
  /\ pt_mem \in BootTableChoices
  /\ spaces = (KernelSpacePtr :> KernelSpaceStatic)

SpecVmmInit == InitVmmInit /\ [][NextVmmInit]_vars

\* the callers that ran the back end initialization or wrote vmm_state
VmmInitPerformers == {t \in Cpus : vloc[t].res \in {"backend", "initialized"}}

\* C39: vmm_init initializes the VMM at most once under concurrent callers.
\* At most one caller runs the architecture back end initialization and sets
\* the kernel-space handle and the counters; when both calls have returned,
\* exactly one of them did it and the other was ignored as a re-initialization.
C39_InitOnce ==
  /\ Cardinality(VmmInitPerformers) <= 1
  /\ (\A t \in Cpus : vpc[t] = "ret") =>
       \E t \in Cpus :
         /\ vloc[t].res = "initialized"
         /\ \A u \in Cpus \ {t} : vloc[u].res = "ignored"

(***************************************************************************)
(* SpecSlabMisuse: the slab calls of SpecSlab without the shrink, and a    *)
(* caller that frees again the pointer it has just freed.                  *)
(***************************************************************************)
\* slab_cache_free(cache, ptr) once more, right after slab_cache_free(cache, ptr);
\* followed while another object of the cache is allocated, so that
\* cache->allocated_objects-- stays above zero
slab_cache_free_again(ci, ptr) ==
  /\ ~Locked
  /\ heap_last = SlabCall("slab_cache_free", ci, 0, ptr)
  /\ g_caches[ci].allocated_objects > 0
  /\ SetHeap(slab_cache_free(HeapNow, ci, ptr))
  /\ UNCHANGED heap_live
  /\ SlabReturn("slab_cache_free", ci, 0, ptr)
  /\ SlabFrame

NextSlabMisuse ==
  \/ boot_pmm_init
  \/ slab_init_call
  \/ \E c \in SlabUserCaches : slab_cache_create_call(c[1], c[2], c[3], c[4])
  \/ \E ci \in SlabCallCaches : slab_cache_alloc_call(ci)
  \/ \E k \in 1..Len(heap_live) : slab_cache_free_call(k)
  \/ \E ci \in SlabCallCaches : slab_cache_free_again(ci, heap_last.ptr)

SpecSlabMisuse == InitSlab /\ [][NextSlabMisuse]_vars

\* the free list of a slab holds free_objects distinct objects of its page
FreeListSound(slab) ==
  LET list == slabs[slab].free_list IN
  /\ Len(list) = slabs[slab].free_objects
  /\ \A i \in 1..Len(list) : list[i].lo - (list[i].lo % SLAB_PAGE_SIZE) = slab
  /\ \A i, j \in 1..Len(list) : i # j => list[i] # list[j]

\* C40: for every slab, after any sequence of slab_cache_alloc and
\* slab_cache_free calls, a second free of a free object included,
\* 0 <= free_objects <= total_objects, the free list holds exactly free_objects
\* distinct objects of the slab, and no object is held by two allocations at once.
C40_SlabSoundUnderDoubleFree ==
  /\ \A ci \in 1..Len(g_caches) :
       \A i \in 1..Len(CacheSlabs(g_caches[ci])) :
         LET slab == CacheSlabs(g_caches[ci])[i] IN
         /\ 0 <= slabs[slab].free_objects
         /\ slabs[slab].free_objects <= slabs[slab].total_objects
         /\ FreeListSound(slab)
  /\ \A i, j \in 1..Len(heap_live) : i # j => heap_live[i].ptr # heap_live[j].ptr

====
